---- MODULE Spec2Model ----
(***************************************************************************)
(* Model of the PhysioSpa scheduling backend (backend/availability.web.js, *)
(* newer revision) : slot generation, conflict filter, work-block analysis *)
(* and buffer synthesis of calculateAvailableTimeSlots, getAvailability,   *)
(* bookAppointment, and the session slot cache of server.js: requests     *)
(* handled one after the other for one caller session with the clock and   *)
(* the cleanup timer, and overlapping requests of two caller sessions.     *)
(*                                                                         *)
(* Instants are JavaScript Date values.  They are counted here in seconds  *)
(* from 2025-03-28T17:00:00.000Z, so that instant 0 is on the hour and the *)
(* literal instant of requiresBuffer is 3600.  The process time zone is a  *)
(* whole number of hours from UTC, so getMinutes() is (t \div 60) % 60.    *)
(***************************************************************************)
EXTENDS Integers, Sequences, FiniteSets, TLC

VARIABLES
  availabilityResponse,  \* windows of userAvailabilities[].availability_by_type[].available_windows[], in iteration order
  appointmentsResponse,  \* appointmentsResponse.appointments
  appointmentType,       \* the requested PhysioSpaAppointmentType
  pc,                    \* "start" before a call, "done" and "again" after calls of calculateAvailableTimeSlots, "listed" after getAvailability, "serving" in the server
  windowSlotCount,       \* possibleSlots.length at the test of line 486
  decisions,             \* per slot of possibleSlots, in order: the slot and what the loop of line 543 decided
  result,                \* the array returned by calculateAvailableTimeSlots
  response,              \* the object returned by getAvailability, Null before the call
  inputsBefore,          \* the caller's windows and appointments as they were before the first call
  secondResult,          \* the array returned by a second call on the same arguments
  timeSlotCache,         \* server: per session id, Null or [idleTime, cache]; idleTime is Date.now() - lastAccessed in half hours; cache maps a slot id to the slot stored and, for the properties, to what the client was shown
  sinceCleanup,          \* server: half hours since the cleanup timer last fired
  idsGenerated,          \* server: how many slot ids generateId has given out
  httpResponse,          \* server: status and body of the last response sent
  lastRequest,           \* server: the last request handled and the upstream writes it issued
  globalCache,           \* globalCache.availabilityCache and globalCache.appointmentsCache
  callArguments,         \* the arguments of the call of getAvailability or bookAppointment made, Null before it
  upstreamCalls,         \* the upstream requests that call issued, in order
  inFlight,              \* server: the requests whose handler waits at its await, each with what the handler holds
  requestsStarted,       \* server: how many requests have come in while requests overlap
  primaryCreations       \* server: per slot id, how many primary appointment-creation requests were issued for it

callVars == <<pc, windowSlotCount, decisions, result, response, inputsBefore, secondResult,
              callArguments, upstreamCalls>>

concurrentVars == <<inFlight, requestsStarted, primaryCreations>>

serverVars == <<timeSlotCache, sinceCleanup, idsGenerated, httpResponse, lastRequest,
                concurrentVars>>

vars == <<availabilityResponse, appointmentsResponse, appointmentType, pc,
          windowSlotCount, decisions, result, response, inputsBefore, secondResult,
          timeSlotCache, sinceCleanup, idsGenerated, httpResponse, lastRequest,
          globalCache, callArguments, upstreamCalls,
          inFlight, requestsStarted, primaryCreations>>

(***************************************************************************)
(* Bounds of the explored inputs.                                          *)
(***************************************************************************)
MaxWindows == 2
MaxAppts == 2
MaxSlotIds == 4    \* slot ids the server gives out
MaxIdle == 4       \* half hours of idle time told apart; longer counts as this
MaxRequests == 4   \* requests that come in while requests overlap

(***************************************************************************)
(* Program constants.                                                      *)
(***************************************************************************)
PROVIDER_ID == 61
ADMIN_FLEXIBLE_TYPE_ID == 1
BUFFER_DURATION == 30
MAGIC_START == 3600   \* '2025-03-28T18:00:00.000Z'

Null == [null |-> TRUE]

\* String(n): the decimal string of a number, kept apart from the number
String(n) == [str |-> n]
\* Date.prototype.toISOString and new Date(isoString): exact to the millisecond
toISOString(t) == [iso |-> t]
DateOf(s) == s.iso

Minutes(m) == m * 60

ACU_NAME == "Acupuncture.Follow-up, self-schd (50 min)"
VAGUS_NAME == "Vagus Nerve Stem Therapy- Initial"
ADMIN_NAME == "ADMIN-Flexible"

appointmentTypes ==
  << [id |-> 151, displayName |-> "Acupuncture", internalName |-> ACU_NAME,
      duration |-> 60, dualBookable |-> FALSE],
     [id |-> 144, displayName |-> "Vagus Nerve Stem Therapy", internalName |-> VAGUS_NAME,
      duration |-> 30, dualBookable |-> TRUE],
     [id |-> ADMIN_FLEXIBLE_TYPE_ID, displayName |-> ADMIN_NAME, internalName |-> ADMIN_NAME,
      duration |-> 30, dualBookable |-> FALSE] >>

\* Array.prototype.find over the catalog: the first match, or Null
findAppointmentTypeByInternalName(internalName) ==
  LET hits == {i \in 1..Len(appointmentTypes) : appointmentTypes[i].internalName = internalName}
  IN IF hits = {} THEN Null
     ELSE appointmentTypes[CHOOSE i \in hits : \A j \in hits : i <= j]

getAppointmentTypeIdFromInternalName(internalName) ==
  LET type == findAppointmentTypeByInternalName(internalName)
  IN IF type = Null THEN Null ELSE String(type.id)

getAppointmentTypesToIgnore == <<String(ADMIN_FLEXIBLE_TYPE_ID)>>

\* Array.prototype.includes
Includes(seq, x) == \E i \in 1..Len(seq) : seq[i] = x

(***************************************************************************)
(* Array.prototype.sort as Node.js (V8) runs it on arrays shorter than 64  *)
(* elements: TimSort degenerates to one run found by CountAndMakeRun and   *)
(* extended by BinaryInsertionSort.  The comparator is kept as the pair of *)
(* keys it subtracts: Compare(a, b) = a[k1] - b[k2].                       *)
(***************************************************************************)
Compare(k1, k2, a, b) == a[k1] - b[k2]

ReverseRange(a, n) ==
  [p \in 1..Len(a) |-> IF p <= n THEN a[n + 1 - p] ELSE a[p]]

RECURSIVE RunLength(_, _, _, _, _, _)
RunLength(k1, k2, a, idx, isDescending, runLength) ==
  IF idx > Len(a) THEN runLength
  ELSE LET order == Compare(k1, k2, a[idx], a[idx - 1])
       IN IF (isDescending /\ order >= 0) \/ (~isDescending /\ order < 0)
          THEN runLength
          ELSE RunLength(k1, k2, a, idx + 1, isDescending, runLength + 1)

RECURSIVE BinarySearch(_, _, _, _, _, _)
BinarySearch(k1, k2, a, pivot, left, right) ==
  IF left < right
  THEN LET mid == left + ((right - left) \div 2)
       IN IF Compare(k1, k2, pivot, a[mid]) < 0
          THEN BinarySearch(k1, k2, a, pivot, left, mid)
          ELSE BinarySearch(k1, k2, a, pivot, mid + 1, right)
  ELSE left

MoveTo(a, start, left) ==
  [p \in 1..Len(a) |->
     IF p < left \/ p > start THEN a[p]
     ELSE IF p = left THEN a[start] ELSE a[p - 1]]

RECURSIVE BinaryInsertionSort(_, _, _, _)
BinaryInsertionSort(k1, k2, a, start) ==
  IF start > Len(a) THEN a
  ELSE BinaryInsertionSort(k1, k2,
         MoveTo(a, start, BinarySearch(k1, k2, a, a[start], 1, start)), start + 1)

ArraySort(k1, k2, a) ==
  IF Len(a) < 2 THEN a
  ELSE LET isDescending == Compare(k1, k2, a[2], a[1]) < 0
           runLength == RunLength(k1, k2, a, 3, isDescending, 2)
           run == IF isDescending THEN ReverseRange(a, runLength) ELSE a
       IN BinaryInsertionSort(k1, k2, run, runLength + 1)

(***************************************************************************)
(* ActualAvailableTimeSlot                                                 *)
(***************************************************************************)
ActualAvailableTimeSlot(startTime, endTime, hasDualBooking) ==
  [startTime |-> startTime, endTime |-> endTime, hasDualBooking |-> hasDualBooking]

overlaps(slot, otherStart, otherEnd) ==
  \/ (slot.startTime <= otherStart /\ slot.endTime > otherStart)
  \/ (slot.startTime < otherEnd /\ slot.endTime >= otherEnd)
  \/ (otherStart <= slot.startTime /\ otherEnd > slot.startTime)
  \/ (otherStart < slot.endTime /\ otherEnd >= slot.endTime)

(***************************************************************************)
(* Step 1 of calculateAvailableTimeSlots: candidates of one window.        *)
(***************************************************************************)
getMinutes(t) == (t \div 60) % 60

\* setMinutes(30, 0, 0) and setHours(getHours() + 1, 0, 0, 0) clear the
\* seconds and milliseconds; a start left as it is keeps them
\* mutant of AlignToHalfHour: a start already on a boundary is moved as well
AlignToHalfHour_AlwaysForward(windowStart) == windowStart - (windowStart % 1800) + 1800

AlignToHalfHour(windowStart) ==
  IF getMinutes(windowStart) > 0 /\ getMinutes(windowStart) < 30
  THEN windowStart - (windowStart % 3600) + 1800
  ELSE IF getMinutes(windowStart) > 30
  THEN windowStart - (windowStart % 3600) + 3600
  ELSE IF getMinutes(windowStart) # 0 /\ getMinutes(windowStart) # 30
  THEN (IF getMinutes(windowStart) < 30
        THEN windowStart - (windowStart % 3600) + 1800
        ELSE windowStart - (windowStart % 3600) + 3600)
  ELSE windowStart

\* mutant of SlotEnd: the end is taken one half-hour step after the start
SlotEnd_HalfHourStep(currentSlotStart, duration) == currentSlotStart + Minutes(30)

\* currentSlotEnd.setMinutes(currentSlotEnd.getMinutes() + appointmentType.duration)
SlotEnd(currentSlotStart, duration) == currentSlotStart + Minutes(duration)

\* mutant of FitsWindow: the test that the appointment ends inside the window is dropped
FitsWindow_Unchecked(currentSlotEnd, windowEnd) == TRUE

\* only add the slot if the entire appointment fits within the window
FitsWindow(currentSlotEnd, windowEnd) == currentSlotEnd <= windowEnd

RECURSIVE SlotsOfWindow(_, _, _)
SlotsOfWindow(currentSlotStart, windowEnd, duration) ==
  IF currentSlotStart < windowEnd
  THEN LET currentSlotEnd == SlotEnd(currentSlotStart, duration)
       IN (IF FitsWindow(currentSlotEnd, windowEnd)
           THEN <<ActualAvailableTimeSlot(currentSlotStart, currentSlotEnd, FALSE)>>
           ELSE <<>>)
          \o SlotsOfWindow(currentSlotStart + Minutes(30), windowEnd, duration)
  ELSE <<>>

RECURSIVE GenerateSlots(_, _)
GenerateSlots(windows, type) ==
  IF windows = <<>> THEN <<>>
  ELSE LET window == Head(windows)
       IN (IF String(window.appointment_type_id) = String(type.id)
           THEN SlotsOfWindow(AlignToHalfHour(window.window_start), window.window_end,
                              type.duration)
           ELSE <<>>)
          \o GenerateSlots(Tail(windows), type)

(***************************************************************************)
(* Step 2: work appointments and the slots mirroring dual appointments.    *)
(***************************************************************************)
IsWorkAppointment(appointment) ==
  LET typeId == getAppointmentTypeIdFromInternalName(appointment.appointment_type_internal_name)
  IN ~(appointment.appointment_type_internal_name # ""
       /\ typeId # Null /\ Includes(getAppointmentTypesToIgnore, typeId))

WorkAppointments(scheduledAppointments) ==
  ArraySort("start_date_time", "end_date_time",
            SelectSeq(scheduledAppointments, IsWorkAppointment))

IsDualBookableAppointment(appointment) ==
  LET apptType == findAppointmentTypeByInternalName(appointment.appointment_type_internal_name)
  IN apptType # Null /\ apptType.dualBookable

RECURSIVE DualBookingSlots(_, _)
DualBookingSlots(scheduledAppointments, type) ==
  IF scheduledAppointments = <<>> THEN <<>>
  ELSE LET appointment == Head(scheduledAppointments)
           start == appointment.start_date_time
           end == appointment.end_date_time
       IN (IF IsDualBookableAppointment(appointment)
              /\ end - start = type.duration * 60
           THEN <<ActualAvailableTimeSlot(start, end, TRUE)>>
           ELSE <<>>)
          \o DualBookingSlots(Tail(scheduledAppointments), type)

(***************************************************************************)
(* The conflict filter of one slot: [isAvailable, hasDualBooking].         *)
(***************************************************************************)
NonDualCheck(slot, workAppointments) ==
  [isAvailable |-> ~\E i \in 1..Len(workAppointments) :
                      overlaps(slot, workAppointments[i].start_date_time,
                                     workAppointments[i].end_date_time),
   hasDualBooking |-> FALSE]

\* mutant of TooManyDualBookings: the limit is off by one
TooManyDualBookings_OffByOne(overlappingDualBookings) == overlappingDualBookings > 2

\* if more than one dual booking already exists, the slot is not available
TooManyDualBookings(overlappingDualBookings) == overlappingDualBookings > 1

RECURSIVE DualCheck(_, _, _, _, _)
DualCheck(slot, workAppointments, i, overlappingDualBookings, hasDualBooking) ==
  IF i > Len(workAppointments)
  THEN [isAvailable |-> TRUE, hasDualBooking |-> hasDualBooking]
  ELSE LET appointment == workAppointments[i]
           apptStart == appointment.start_date_time
           apptEnd == appointment.end_date_time
       IN IF ~overlaps(slot, apptStart, apptEnd)
          THEN DualCheck(slot, workAppointments, i + 1, overlappingDualBookings, hasDualBooking)
          ELSE IF IsDualBookableAppointment(appointment)
          THEN (IF apptStart = slot.startTime /\ apptEnd = slot.endTime
                THEN (IF TooManyDualBookings(overlappingDualBookings + 1)
                      THEN [isAvailable |-> FALSE, hasDualBooking |-> hasDualBooking]
                      ELSE DualCheck(slot, workAppointments, i + 1,
                                     overlappingDualBookings + 1, TRUE))
                ELSE [isAvailable |-> FALSE, hasDualBooking |-> hasDualBooking])
          ELSE [isAvailable |-> FALSE, hasDualBooking |-> hasDualBooking]

ConflictCheck(slot, workAppointments, type) ==
  IF ~type.dualBookable
  THEN NonDualCheck(slot, workAppointments)
  ELSE DualCheck(slot, workAppointments, 1, 0, FALSE)

(***************************************************************************)
(* The work-block analysis of one conflict-free slot (lines 597-666).      *)
(* tempAppointment is recognised by the identity of its Date objects,      *)
(* which no scheduled appointment shares: isTemp.                          *)
(***************************************************************************)
AsAnalysed(appointment) ==
  [start_date_time |-> appointment.start_date_time,
   end_date_time |-> appointment.end_date_time, isTemp |-> FALSE]

TempAppointment(slot) ==
  [start_date_time |-> slot.startTime, end_date_time |-> slot.endTime, isTemp |-> TRUE]

AllApptsForAnalysis(slot, workAppointments) ==
  ArraySort("start_date_time", "end_date_time",
            [i \in 1..Len(workAppointments) |-> AsAnalysed(workAppointments[i])]
              \o <<TempAppointment(slot)>>)

RECURSIVE WorkBlocks(_, _, _)
WorkBlocks(all, i, currentBlock) ==
  IF i > Len(all)
  THEN (IF Len(currentBlock) > 0 THEN <<currentBlock>> ELSE <<>>)
  ELSE LET current == all[i]
       IN IF Len(currentBlock) = 0
          THEN WorkBlocks(all, i + 1, <<current>>)
          ELSE LET lastAppointment == currentBlock[Len(currentBlock)]
                   timeDifference == current.start_date_time - lastAppointment.end_date_time
               IN IF timeDifference <= 1 * 60
                  THEN WorkBlocks(all, i + 1, Append(currentBlock, current))
                  ELSE <<currentBlock>> \o WorkBlocks(all, i + 1, <<current>>)

BlockDuration(block) ==
  block[Len(block)].end_date_time - block[1].start_date_time

\* TRUE when the loop of lines 646-665 sets isAvailable = false
ExceedsWorkBlock(slot, workAppointments) ==
  LET workBlocks == WorkBlocks(AllApptsForAnalysis(slot, workAppointments), 1, <<>>)
  IN \E b \in 1..Len(workBlocks) :
       /\ \E k \in 1..Len(workBlocks[b]) : workBlocks[b][k].isTemp
       /\ BlockDuration(workBlocks[b]) > 60 * 60

(***************************************************************************)
(* requiresBuffer and wouldExceedConsecutiveWorkThreshold.                 *)
(***************************************************************************)
ScheduledTimes(startTime, duration, scheduledAppointments) ==
  ArraySort("start", "start",
            [i \in 1..Len(scheduledAppointments) |->
               [start |-> scheduledAppointments[i].start_date_time,
                end |-> scheduledAppointments[i].end_date_time]]
              \o <<[start |-> startTime, end |-> startTime + duration * 60]>>)

RECURSIVE ScheduledBlocks(_, _, _)
ScheduledBlocks(scheduledTimes, i, currentBlock) ==
  IF i > Len(scheduledTimes)
  THEN (IF Len(currentBlock) > 0 THEN <<currentBlock>> ELSE <<>>)
  ELSE LET current == scheduledTimes[i]
       IN IF Len(currentBlock) = 0
          THEN ScheduledBlocks(scheduledTimes, i + 1, <<current>>)
          ELSE LET lastAppointment == currentBlock[Len(currentBlock)]
                   timeDifference == current.start - lastAppointment.end
               IN IF timeDifference <= 1 * 60
                  THEN ScheduledBlocks(scheduledTimes, i + 1, Append(currentBlock, current))
                  ELSE <<currentBlock>> \o ScheduledBlocks(scheduledTimes, i + 1, <<current>>)

wouldExceedConsecutiveWorkThreshold(startTime, duration, scheduledAppointments, thresholdMinutes) ==
  IF Len(scheduledAppointments) = 0
  THEN duration >= thresholdMinutes
  ELSE LET workBlocks ==
             ScheduledBlocks(ScheduledTimes(startTime, duration, scheduledAppointments), 1, <<>>)
       IN \E b \in 1..Len(workBlocks) :
            workBlocks[b][Len(workBlocks[b])].end - workBlocks[b][1].start
              >= thresholdMinutes * 60

requiresBuffer(appointmentTypeId, startTime, duration, scheduledAppointments) ==
  IF toISOString(startTime) = toISOString(MAGIC_START)
  THEN TRUE
  ELSE IF appointmentTypeId = String(144)
  THEN FALSE
  ELSE wouldExceedConsecutiveWorkThreshold(startTime, duration, scheduledAppointments, 60)

(***************************************************************************)
(* Buffer placement (lines 693-739).                                       *)
(***************************************************************************)
\* mutant of calculateBufferStartTime: the buffer is put a fixed half hour
\* after the start, whatever the duration of the primary booking
calculateBufferStartTime_FixedOffset(startTime, duration) == DateOf(startTime) + Minutes(30)

calculateBufferStartTime(startTime, duration) == DateOf(startTime) + Minutes(duration)

\* String.prototype.toLowerCase on the status values of the model
toLowerCase(status) ==
  IF status = "Confirmed" THEN "confirmed" ELSE status

\* mutant of BufferOverlaps: the status test of lines 702-705 is dropped, an
\* appointment of any status blocks the buffer
BufferOverlaps_AnyStatus(bufferStartTime, scheduledAppointments) ==
  LET bufferEndTime == bufferStartTime + BUFFER_DURATION * 60
  IN \E i \in 1..Len(scheduledAppointments) :
       LET apptStart == scheduledAppointments[i].start_date_time
           apptEnd == scheduledAppointments[i].end_date_time
       IN \/ (bufferStartTime <= apptStart /\ bufferEndTime > apptStart)
          \/ (bufferStartTime < apptEnd /\ bufferEndTime >= apptEnd)
          \/ (apptStart <= bufferStartTime /\ apptEnd > bufferStartTime)
          \/ (apptStart < bufferEndTime /\ apptEnd >= bufferEndTime)

BufferOverlaps(bufferStartTime, scheduledAppointments) ==
  LET bufferEndTime == bufferStartTime + BUFFER_DURATION * 60
  IN \E i \in 1..Len(scheduledAppointments) :
       LET appointment == scheduledAppointments[i]
           apptStatus == toLowerCase(appointment.status)
           apptStart == appointment.start_date_time
           apptEnd == appointment.end_date_time
       IN /\ ~(apptStatus # "confirmed" /\ apptStatus # "checked_in")
          /\ \/ (bufferStartTime <= apptStart /\ bufferEndTime > apptStart)
             \/ (bufferStartTime < apptEnd /\ bufferEndTime >= apptEnd)
             \/ (apptStart <= bufferStartTime /\ apptEnd > bufferStartTime)
             \/ (apptStart < bufferEndTime /\ apptEnd >= bufferEndTime)

(***************************************************************************)
(* The loop of lines 543-749; the items pushed to finalTimeSlots are kept  *)
(* in the shape the map of lines 752-758 gives them.                       *)
(***************************************************************************)
\* mutant of TimeSlotOf: the flag found by the conflict filter is not stored
\* in the slot (line 671), which keeps the flag it was constructed with
TimeSlotOf_StaleFlag(slot, hasDualBooking, primaryBooking, buffer) ==
  [startTime |-> toISOString(slot.startTime),
   endTime |-> toISOString(slot.endTime),
   hasDualBooking |-> slot.hasDualBooking,
   primaryBooking |-> primaryBooking,
   buffer |-> buffer]

TimeSlotOf(slot, hasDualBooking, primaryBooking, buffer) ==
  [startTime |-> toISOString(slot.startTime),
   endTime |-> toISOString(slot.endTime),
   hasDualBooking |-> hasDualBooking,
   primaryBooking |-> primaryBooking,
   buffer |-> buffer]

\* what the loop body decides for one slot, and the items it pushes
SlotDecision(slot, workAppointments, scheduledAppointments, type) ==
  LET check == ConflictCheck(slot, workAppointments, type)
      blockRejected == check.isAvailable /\ ExceedsWorkBlock(slot, workAppointments)
      isAvailable == check.isAvailable /\ ~blockRejected
      primaryBooking == [appointmentTypeId |-> String(type.id),
                         startTime |-> toISOString(slot.startTime),
                         duration |-> type.duration,
                         isBuffer |-> FALSE]
      needsBuffer == isAvailable /\ requiresBuffer(String(type.id), slot.startTime,
                                                   type.duration, scheduledAppointments)
      bufferStartTime == calculateBufferStartTime(toISOString(slot.startTime), type.duration)
      bufferOverlaps == needsBuffer /\ BufferOverlaps(bufferStartTime, scheduledAppointments)
      bufferBooking == [appointmentTypeId |-> String(ADMIN_FLEXIBLE_TYPE_ID),
                        startTime |-> toISOString(bufferStartTime),
                        duration |-> BUFFER_DURATION,
                        isBuffer |-> TRUE]
  IN [slot |-> slot,
      conflictFree |-> check.isAvailable,
      blockRejected |-> blockRejected,
      needsBuffer |-> needsBuffer,
      bufferOverlaps |-> bufferOverlaps,
      items |-> IF ~isAvailable THEN <<>>
                ELSE IF needsBuffer
                THEN (IF bufferOverlaps
                      THEN <<>>
                      ELSE <<TimeSlotOf(slot, check.hasDualBooking, primaryBooking,
                                        bufferBooking)>>)
                ELSE <<TimeSlotOf(slot, check.hasDualBooking, primaryBooking, Null)>>]

SlotDecisions(slots, workAppointments, scheduledAppointments, type) ==
  [i \in 1..Len(slots) |->
     SlotDecision(slots[i], workAppointments, scheduledAppointments, type)]

RECURSIVE FinalTimeSlots(_, _)
FinalTimeSlots(decided, i) ==
  IF i > Len(decided) THEN <<>>
  ELSE decided[i].items \o FinalTimeSlots(decided, i + 1)

(***************************************************************************)
(* calculateAvailableTimeSlots: the candidates and the returned array.     *)
(***************************************************************************)
PossibleSlots(windows, scheduledAppointments, type) ==
  LET generated == GenerateSlots(windows, type)
  IN IF Len(windows) = 0 \/ Len(generated) = 0 THEN <<>>
     ELSE IF type.dualBookable
     THEN generated \o DualBookingSlots(scheduledAppointments, type)
     ELSE generated

Decisions(windows, scheduledAppointments, type) ==
  SlotDecisions(PossibleSlots(windows, scheduledAppointments, type),
                WorkAppointments(scheduledAppointments), scheduledAppointments, type)

\* mutant of calculateAvailableTimeSlots: the slots mirroring dual
\* appointments are put before the slots of the windows
calculateAvailableTimeSlots_DualFirst(windows, scheduledAppointments, type) ==
  LET decided == Decisions(windows, scheduledAppointments, type)
      n == Len(GenerateSlots(windows, type))
  IN FinalTimeSlots(SubSeq(decided, n + 1, Len(decided)) \o SubSeq(decided, 1, n), 1)

calculateAvailableTimeSlots(windows, scheduledAppointments, type) ==
  FinalTimeSlots(Decisions(windows, scheduledAppointments, type), 1)

(***************************************************************************)
(* The arrays a call works on.  The filter of line 495 builds a new array, *)
(* so the sort of line 507 reorders that copy and not the caller's list.   *)
(***************************************************************************)
\* mutant of ArraysAfterCall: no copy is made, the sort of line 507 works on
\* the caller's list itself
ArraysAfterCall_SortedInPlace(scheduledAppointments) ==
  LET sorted == ArraySort("start_date_time", "end_date_time", scheduledAppointments)
  IN [scheduledAppointments |-> sorted, workAppointments |-> sorted]

ArraysAfterCall(scheduledAppointments) ==
  [scheduledAppointments |-> scheduledAppointments,
   workAppointments |-> WorkAppointments(scheduledAppointments)]

(***************************************************************************)
(* getAvailability (lines 133-198): validation, catalog lookup, the two    *)
(* upstream reads, the calculation and the chronological sort.             *)
(***************************************************************************)
\* new Date(slot.startTime).getTime(), the key of the comparator of line 184
WithSortKey(availableSlots) ==
  [i \in 1..Len(availableSlots) |->
     [time |-> DateOf(availableSlots[i].startTime), slot |-> availableSlots[i]]]

\* mutant of SortByStartTime: the sort of lines 183-185 is left out
SortByStartTime_Unsorted(availableSlots) == availableSlots

SortByStartTime(availableSlots) ==
  LET sorted == ArraySort("time", "time", WithSortKey(availableSlots))
  IN [i \in 1..Len(sorted) |-> sorted[i].slot]

\* Array.prototype.find of lines 151-153: the first catalog type of that id
FindAppointmentTypeById(appointmentTypeId) ==
  LET hits == {i \in 1..Len(appointmentTypes) : appointmentTypes[i].id = appointmentTypeId}
  IN IF hits = {} THEN Null
     ELSE appointmentTypes[CHOOSE i \in hits : \A j \in hits : i <= j]

\* a date parameter is a 'YYYY-MM-DD' string, Null when it is left out; an
\* appointment type id left out is 0
DateString(ymd) == [ymd |-> ymd]

\* line 142: !appointmentTypeId || !startDate || !endDate
ParametersMissing(appointmentTypeId, startDate, endDate) ==
  appointmentTypeId = 0 \/ startDate = Null \/ endDate = Null

\* upstreamOk: both reads of lines 163 and 168 answer; they throw otherwise
getAvailability(appointmentTypeId, startDate, endDate, windows, scheduledAppointments, upstreamOk) ==
  IF ParametersMissing(appointmentTypeId, startDate, endDate)
  THEN [success |-> FALSE, error |-> "Missing required parameters"]
  ELSE IF FindAppointmentTypeById(appointmentTypeId) = Null \/ ~upstreamOk
  THEN [success |-> FALSE, error |-> "Failed to retrieve availability"]
  ELSE [success |-> TRUE,
        availableSlots |->
          SortByStartTime(calculateAvailableTimeSlots(
            windows, scheduledAppointments, FindAppointmentTypeById(appointmentTypeId)))]

\* the requests of getCerboAvailability (line 163) and getAllAppointments (line 168)
AvailabilityRead(startDate, endDate) ==
  [kind |-> "availability", provider_ids |-> <<PROVIDER_ID>>,
   start_date |-> startDate, end_date |-> endDate]

AppointmentsRead(startDate, endDate) ==
  [kind |-> "appointments", provider_id |-> PROVIDER_ID,
   start_date |-> startDate, end_date |-> endDate]

\* mutant of UpstreamReads: the reads are issued before the catalog lookup of
\* lines 151-158
UpstreamReads_BeforeLookup(appointmentTypeId, startDate, endDate, failingRead) ==
  IF ParametersMissing(appointmentTypeId, startDate, endDate)
  THEN <<>>
  ELSE <<AvailabilityRead(startDate, endDate), AppointmentsRead(startDate, endDate)>>

\* the upstream reads a call of getAvailability issues.  failingRead is 0 when
\* both reads answer, 1 when the read of line 163 throws, 2 when that of line
\* 168 throws
UpstreamReads(appointmentTypeId, startDate, endDate, failingRead) ==
  IF ParametersMissing(appointmentTypeId, startDate, endDate)
  THEN <<>>
  ELSE IF FindAppointmentTypeById(appointmentTypeId) = Null
  THEN <<>>
  ELSE IF failingRead = 1
  THEN <<AvailabilityRead(startDate, endDate)>>
  ELSE <<AvailabilityRead(startDate, endDate), AppointmentsRead(startDate, endDate)>>

\* lines 88-90: the process-wide caches when the module is loaded
GlobalCacheLoaded == [availabilityCache |-> Null, appointmentsCache |-> Null]

\* lines 172-173: the caches after a call; they are assigned the response
\* objects once both reads have answered
GlobalCacheAfter(cache, appointmentTypeId, startDate, endDate, windows, scheduledAppointments, upstreamOk) ==
  IF ParametersMissing(appointmentTypeId, startDate, endDate)
  THEN cache
  ELSE IF FindAppointmentTypeById(appointmentTypeId) = Null \/ ~upstreamOk
  THEN cache
  ELSE [availabilityCache |-> [available_windows |-> windows],
        appointmentsCache |-> [appointments |-> scheduledAppointments]]

(***************************************************************************)
(* bookAppointment (lines 209-348).  The upstream answers each write with  *)
(* an outcome: "ok", "unsuccessful" (a response that is not a success) or  *)
(* "throws".  The operator gives the returned object and the upstream      *)
(* writes issued, in order.                                                *)
(***************************************************************************)
\* appointmentTypes.find(type => String(type.id) === String(appointmentTypeId));
\* String of a string is that string
FindAppointmentTypeByIdString(appointmentTypeId) ==
  LET hits == {i \in 1..Len(appointmentTypes) :
                 String(appointmentTypes[i].id) = appointmentTypeId}
  IN IF hits = {} THEN Null
     ELSE appointmentTypes[CHOOSE i \in hits : \A j \in hits : i <= j]

getAppointmentTypeName(appointmentTypeId) ==
  LET appType == FindAppointmentTypeByIdString(appointmentTypeId)
  IN IF appType # Null THEN appType.internalName ELSE "Appointment (Type ?)"

calculateEndTimeString(startTimeStr, durationMinutes) ==
  toISOString(DateOf(startTimeStr) + durationMinutes * 60)

\* the request objects of lines 238-247 and 285-294
AppointmentRequestOf(booking, note) ==
  [start_date_time |-> booking.startTime,
   end_date_time |-> calculateEndTimeString(booking.startTime, booking.duration),
   provider_ids |-> <<PROVIDER_ID>>,
   appointment_type |-> getAppointmentTypeName(booking.appointmentTypeId),
   title |-> getAppointmentTypeName(booking.appointmentTypeId),
   appointment_note |-> note,
   status |-> "confirmed",
   telemedicine |-> FALSE]

\* the task data of createTask (lines 1009-1041)
TaskDataOf(type, startTime) ==
  [dr_id |-> PROVIDER_ID,
   subject |-> type.displayName,
   priority |-> "low",
   due_date |-> startTime,
   remind_minutes_before |-> 60]

AppointmentWrite(request) == [kind |-> "appointment", request |-> request]
TaskWrite(taskData) == [kind |-> "task", request |-> taskData]

\* mutant of ResponseSuccess: the success flag of the upstream's answer is not read
ResponseSuccess_Unchecked(outcome) == TRUE

\* CreateAppointmentResponse.success, read at lines 253 and 301
ResponseSuccess(outcome) == outcome = "ok"

\* lines 279-325: the buffer step, the entries it pushes and the write it issues
BufferStep(timeSlot, bufferOutcome) ==
  IF timeSlot.buffer = Null
  THEN [bookingResults |-> <<>>, writes |-> <<>>]
  ELSE [bookingResults |->
          IF bufferOutcome = "throws"
          THEN <<[success |-> FALSE, isBuffer |-> TRUE,
                  error |-> "Error booking buffer appointment: thrown"]>>
          ELSE IF ResponseSuccess(bufferOutcome)
          THEN <<[success |-> TRUE, isBuffer |-> TRUE, appointmentId |-> "id",
                  startTime |-> timeSlot.buffer.startTime,
                  endTime |-> calculateEndTimeString(timeSlot.buffer.startTime,
                                                     timeSlot.buffer.duration)]>>
          ELSE <<[success |-> FALSE, isBuffer |-> TRUE,
                  error |-> "Failed to book buffer appointment"]>>,
        writes |-> <<AppointmentWrite(AppointmentRequestOf(timeSlot.buffer, "BUFFER"))>>]

\* mutant of TaskStep: the reminder task is not attempted
TaskStep_NotAttempted(type, startTime, taskOutcome) ==
  [bookingResults |-> <<>>, writes |-> <<>>]

\* lines 327-333: the reminder task; its outcome is caught and logged only
TaskStep(type, startTime, taskOutcome) ==
  [bookingResults |-> <<>>,
   writes |-> <<TaskWrite(TaskDataOf(type, startTime))>>]

bookAppointment(patientName, email, timeSlot, primaryOutcome, bufferOutcome, taskOutcome) ==
  IF timeSlot = Null \/ timeSlot.primaryBooking = Null
  THEN [returned |-> [success |-> FALSE, error |-> "No booking information provided"],
        writes |-> <<>>]
  ELSE
  LET primaryBooking == timeSlot.primaryBooking
      bookedType == FindAppointmentTypeByIdString(primaryBooking.appointmentTypeId)
      appointmentRequest == AppointmentRequestOf(primaryBooking, <<patientName, email>>)
      primaryResult == [success |-> TRUE, isBuffer |-> FALSE, appointmentId |-> "id",
                        startTime |-> primaryBooking.startTime,
                        endTime |-> calculateEndTimeString(primaryBooking.startTime,
                                                           primaryBooking.duration)]
      primaryAppointment == [patientName |-> patientName, email |-> email,
                             providerId |-> PROVIDER_ID,
                             appointmentTypeId |-> primaryBooking.appointmentTypeId,
                             startTime |-> primaryBooking.startTime,
                             endTime |-> calculateEndTimeString(primaryBooking.startTime,
                                                                primaryBooking.duration)]
      bufferStep == BufferStep(timeSlot, bufferOutcome)
      taskStep == TaskStep(bookedType, primaryBooking.startTime, taskOutcome)
  IN IF bookedType = Null
     THEN [returned |-> [success |-> FALSE, error |-> "Appointment type not found"],
           writes |-> <<>>]
     ELSE IF primaryOutcome = "throws"
     THEN [returned |-> [success |-> FALSE, error |-> "thrown"],
           writes |-> <<AppointmentWrite(appointmentRequest)>>]
     ELSE IF ~ResponseSuccess(primaryOutcome)
     THEN [returned |-> [success |-> FALSE, error |-> "Failed to book primary appointment"],
           writes |-> <<AppointmentWrite(appointmentRequest)>>]
     ELSE [returned |-> [success |-> TRUE,
                         appointment |-> primaryAppointment,
                         bookingResults |-> <<primaryResult>> \o bufferStep.bookingResults
                                             \o taskStep.bookingResults],
           writes |-> <<AppointmentWrite(appointmentRequest)>> \o bufferStep.writes
                       \o taskStep.writes]

(***************************************************************************)
(* The inputs of a call: availability windows, scheduled appointments and  *)
(* the requested type (the catalog's types, the 50-minute type of the      *)
(* tests and a 90-minute one).                                             *)
(***************************************************************************)
SeqsUpTo(S, n) == UNION {[1..k -> S] : k \in 0..n}

Window(typeId, start, end) ==
  [appointment_type_id |-> typeId, window_start |-> start, window_end |-> end]

WindowChoices ==
  { Window(id, iv[1], iv[2]) :
      id \in {151, 144},
      iv \in { <<0, Minutes(180)>>, <<Minutes(10), Minutes(150)>>,
               <<Minutes(45), Minutes(135)>>, <<30, Minutes(120)>>,
               <<Minutes(30), Minutes(75)>> } }

Appointment(name, start, end, status) ==
  [appointment_type_internal_name |-> name, start_date_time |-> start,
   end_date_time |-> end, status |-> status]

ApptChoices ==
  { Appointment(VAGUS_NAME, Minutes(30), Minutes(60), "confirmed"),
    Appointment(VAGUS_NAME, Minutes(75), Minutes(105), "scheduled"),
    Appointment(VAGUS_NAME, Minutes(120), Minutes(180), "scheduled"),
    Appointment(ACU_NAME, 0, Minutes(120), "confirmed"),
    Appointment(ACU_NAME, Minutes(30), Minutes(60), "scheduled"),
    Appointment(ACU_NAME, 0, Minutes(29), "scheduled"),
    Appointment(ACU_NAME, Minutes(90), Minutes(150), "Confirmed"),
    Appointment(ADMIN_NAME, Minutes(60), Minutes(90), "confirmed"),
    Appointment("Massage", Minutes(120), Minutes(150), "checked_in") }

TypeChoices ==
  { appointmentTypes[1], appointmentTypes[2],
    [appointmentTypes[1] EXCEPT !.duration = 50],
    [appointmentTypes[1] EXCEPT !.duration = 90] }

(***************************************************************************)
(* The server (server.js): the session middleware, the slot cache, the     *)
(* three endpoints and the cleanup timer.  Time is counted in half hours.  *)
(***************************************************************************)
SessionIds == {"a"}

HALF_HOUR_MS == 30 * 60 * 1000
SESSION_TIMEOUT_MS == 60 * 60 * 1000
CLEANUP_PERIOD_MS == 60 * 60 * 1000

RequestedDay == DateString("2025-03-29")

\* the state after the module is loaded: an empty map, the timer armed
ServerStarted ==
  /\ timeSlotCache = [sessionId \in SessionIds |-> Null]
  /\ sinceCleanup = 0
  /\ idsGenerated = 0
  /\ httpResponse = Null
  /\ lastRequest = Null
  /\ globalCache = GlobalCacheLoaded
  /\ inFlight = {}
  /\ requestsStarted = 0
  /\ primaryCreations = [slotId \in 1..MaxSlotIds |-> 0]

\* the session middleware (lines 43-68): a session unknown to the map gets an
\* empty cache, a known one has lastAccessed set to now
SessionTouched(sessionId) ==
  [timeSlotCache EXCEPT ![sessionId] =
     IF timeSlotCache[sessionId] = Null
     THEN [idleTime |-> 0, cache |-> <<>>]
     ELSE [timeSlotCache[sessionId] EXCEPT !.idleTime = 0]]

\* mutant of CachedSlot: the limited version sent to the client is what is cached
CachedSlot_Limited(slot) == [slot EXCEPT !.buffer = Null]

\* line 110: the complete slot is stored in the session cache
CachedSlot(slot) == slot

\* lines 113-119: what the client is shown of a slot
LimitedSlot(slotId, slot) ==
  [id |-> slotId,
   startTime |-> IF slot.primaryBooking # Null THEN slot.primaryBooking.startTime
                 ELSE slot.startTime,
   endTime |-> slot.endTime,
   hasDualBooking |-> slot.hasDualBooking,
   hasBuffer |-> slot.buffer # Null]

\* lines 105-120: generateId gives ids never given before
SlotIdsFor(availableSlots) == {idsGenerated + k : k \in 1..Len(availableSlots)}

Init ==
  /\ availabilityResponse \in SeqsUpTo(WindowChoices, MaxWindows)
  /\ appointmentsResponse \in SeqsUpTo(ApptChoices, MaxAppts)
  /\ appointmentType \in TypeChoices
  /\ pc = "start"
  /\ windowSlotCount = 0
  /\ decisions = <<>>
  /\ result = <<>>
  /\ response = Null
  /\ inputsBefore = [windows |-> availabilityResponse, appointments |-> appointmentsResponse]
  /\ secondResult = <<>>
  /\ callArguments = Null
  /\ upstreamCalls = <<>>
  /\ ServerStarted

\* a call of calculateAvailableTimeSlots on the inputs
Calculate ==
  /\ pc = "start"
  /\ pc' = "done"
  /\ windowSlotCount' = Len(GenerateSlots(availabilityResponse, appointmentType))
  /\ decisions' = Decisions(availabilityResponse, appointmentsResponse, appointmentType)
  /\ result' = calculateAvailableTimeSlots(availabilityResponse, appointmentsResponse,
                                           appointmentType)
  /\ appointmentsResponse' = ArraysAfterCall(appointmentsResponse).scheduledAppointments
  /\ UNCHANGED <<availabilityResponse, appointmentType, response, inputsBefore,
                 secondResult, callArguments, upstreamCalls>>
  /\ UNCHANGED <<serverVars, globalCache>>

\* a second call in succession, on what the first call left in the arguments
CalculateAgain ==
  /\ pc = "done"
  /\ pc' = "again"
  /\ secondResult' = calculateAvailableTimeSlots(availabilityResponse, appointmentsResponse,
                                                 appointmentType)
  /\ appointmentsResponse' = ArraysAfterCall(appointmentsResponse).scheduledAppointments
  /\ UNCHANGED <<availabilityResponse, appointmentType, windowSlotCount, decisions,
                 result, response, inputsBefore, callArguments, upstreamCalls>>
  /\ UNCHANGED <<serverVars, globalCache>>

\* a call of getAvailability, the upstream answering with the windows and
\* appointments or failing at one of the reads
GetAvailabilityOf(appointmentTypeId, startDate, endDate, failingRead) ==
  /\ pc = "start"
  /\ pc' = "listed"
  /\ callArguments' = [appointmentTypeId |-> appointmentTypeId,
                       startDate |-> startDate, endDate |-> endDate]
  /\ response' = getAvailability(appointmentTypeId, startDate, endDate,
                                 availabilityResponse, appointmentsResponse,
                                 failingRead = 0)
  /\ upstreamCalls' = UpstreamReads(appointmentTypeId, startDate, endDate, failingRead)
  /\ globalCache' = GlobalCacheAfter(globalCache, appointmentTypeId, startDate, endDate,
                                     availabilityResponse, appointmentsResponse,
                                     failingRead = 0)
  /\ UNCHANGED <<availabilityResponse, appointmentsResponse, appointmentType,
                 windowSlotCount, decisions, result, inputsBefore, secondResult>>
  /\ UNCHANGED serverVars

\* the call for the id of the requested type
GetAvailability ==
  \E failingRead \in 0..2 :
    GetAvailabilityOf(appointmentType.id, RequestedDay, RequestedDay, failingRead)

Next == Calculate \/ CalculateAgain \/ GetAvailability

Spec == Init /\ [][Next]_vars

(***************************************************************************)
(* The day of 2025-03-29: one window around 12:00-20:00 UTC, at most one   *)
(* appointment in the afternoon, any of the requested types.               *)
(***************************************************************************)
T_12_00 == 19 * 3600   \* 2025-03-29T12:00:00.000Z
T_20_00 == 27 * 3600   \* 2025-03-29T20:00:00.000Z

DayWindowChoices ==
  { Window(151, start, end) :
      start \in {T_12_00, T_12_00 + Minutes(10), T_12_00 + Minutes(30), T_12_00 + Minutes(40)},
      end \in {T_20_00 - Minutes(30), T_20_00 - Minutes(10), T_20_00} }

DayApptChoices ==
  { <<>>,
    <<Appointment(ACU_NAME, T_12_00 + Minutes(180), T_12_00 + Minutes(240), "confirmed")>> }

DayInit ==
  /\ availabilityResponse \in {<<w>> : w \in DayWindowChoices}
  /\ appointmentsResponse \in DayApptChoices
  /\ appointmentType \in TypeChoices
  /\ pc = "start"
  /\ windowSlotCount = 0
  /\ decisions = <<>>
  /\ result = <<>>
  /\ response = Null
  /\ inputsBefore = [windows |-> availabilityResponse, appointments |-> appointmentsResponse]
  /\ secondResult = <<>>
  /\ callArguments = Null
  /\ upstreamCalls = <<>>
  /\ ServerStarted

DaySpec == DayInit /\ [][Next]_vars

(***************************************************************************)
(* The server at work: requests of the sessions, the clock, the cleanup    *)
(* timer and a provider calendar that other parties change meanwhile.      *)
(***************************************************************************)
ServerWindows == <<Window(144, Minutes(30), Minutes(90)), Window(151, 0, Minutes(90))>>

ServerApptChoices ==
  { <<>>, <<Appointment(ACU_NAME, Minutes(90), Minutes(120), "confirmed")>> }

TypeIdChoices == {0, 144, 151, 999}    \* 0: the parameter is missing
EmailChoices == {"", "pat.example.com", "pat@example.com"}
OutcomeChoices == {"ok", "unsuccessful", "throws"}
TaskOutcomeChoices == {"ok", "throws"}

ServerInit ==
  /\ availabilityResponse = ServerWindows
  /\ appointmentsResponse \in ServerApptChoices
  /\ appointmentType = appointmentTypes[1]
  /\ pc = "serving"
  /\ windowSlotCount = 0
  /\ decisions = <<>>
  /\ result = <<>>
  /\ response = Null
  /\ inputsBefore = Null
  /\ secondResult = <<>>
  /\ callArguments = Null
  /\ upstreamCalls = <<>>
  /\ ServerStarted

\* getAppointmentTypes (lines 98-123)
getAppointmentTypes ==
  [success |-> TRUE,
   appointmentTypes |->
     LET filtered == SelectSeq(appointmentTypes, LAMBDA type : type.id # ADMIN_FLEXIBLE_TYPE_ID)
     IN [i \in 1..Len(filtered) |->
           [id |-> filtered[i].id, displayName |-> filtered[i].displayName]]]

RequestOf(handler, sessionId) ==
  [handler |-> handler, sessionId |-> sessionId,
   newSession |-> timeSlotCache[sessionId] = Null]

\* GET /api/appointment-types (lines 71-81), after the middleware
ListAppointmentTypes(sessionId) ==
  /\ pc = "serving"
  /\ timeSlotCache' = SessionTouched(sessionId)
  /\ httpResponse' = [status |-> 200, body |-> getAppointmentTypes]
  /\ lastRequest' = RequestOf("appointment-types", sessionId)
  /\ UNCHANGED <<availabilityResponse, appointmentsResponse, appointmentType, callVars,
                 concurrentVars,
                 sinceCleanup, idsGenerated, globalCache>>

\* GET /api/availability (lines 83-138), after the middleware
ListAvailability(sessionId, appointmentTypeId, upstreamOk) ==
  LET touched == SessionTouched(sessionId)
      listed == getAvailability(appointmentTypeId, RequestedDay, RequestedDay,
                                availabilityResponse, appointmentsResponse, upstreamOk)
      slots == IF listed.success THEN listed.availableSlots ELSE <<>>
      slotIds == SlotIdsFor(slots)
  IN /\ pc = "serving"
     /\ IF appointmentTypeId = 0
        THEN /\ timeSlotCache' = touched
             /\ httpResponse' = [status |-> 400,
                                 body |-> [success |-> FALSE,
                                           error |-> "Missing required parameters"]]
             /\ UNCHANGED <<idsGenerated, globalCache>>
        ELSE /\ idsGenerated + Len(slots) <= MaxSlotIds
             /\ timeSlotCache' =
                  [touched EXCEPT ![sessionId].cache =
                     [slotId \in slotIds |->
                        [timeSlot |-> CachedSlot(slots[slotId - idsGenerated]),
                         shown |-> LimitedSlot(slotId, slots[slotId - idsGenerated])
                                   @@ [appointmentTypeId |-> appointmentTypeId]]]]
             /\ idsGenerated' = idsGenerated + Len(slots)
             /\ globalCache' = GlobalCacheAfter(globalCache, appointmentTypeId,
                                                RequestedDay, RequestedDay,
                                                availabilityResponse,
                                                appointmentsResponse, upstreamOk)
             /\ httpResponse' =
                  [status |-> 200,
                   body |-> IF listed.success
                            THEN [success |-> TRUE,
                                  availableSlots |->
                                    [k \in 1..Len(slots) |->
                                       LimitedSlot(idsGenerated + k, slots[k])]]
                            ELSE listed]
     /\ lastRequest' = RequestOf("availability", sessionId)
     /\ UNCHANGED <<availabilityResponse, appointmentsResponse, appointmentType, callVars,
                 concurrentVars,
                    sinceCleanup>>

\* String.prototype.includes('@') on the addresses of the model
HasAtSign(email) == email = "pat@example.com"

\* POST /api/book-appointment (lines 140-198), after the middleware;
\* slotId 0 is a missing slotId.  The upstream's outcomes are drawn for the
\* writes that are issued.
BookAppointment(sessionId, email, slotId) ==
  LET touched == SessionTouched(sessionId)
      sessionCache == touched[sessionId]
      found == slotId \in DOMAIN sessionCache.cache
      timeSlot == sessionCache.cache[slotId].timeSlot
      request == RequestOf("book-appointment", sessionId) @@ [slotId |-> slotId]
      notBooked == request @@ [timeSlot |-> Null, shown |-> Null, writes |-> <<>>,
                               primaryOutcome |-> "none", bufferOutcome |-> "none",
                               taskOutcome |-> "none"]
  IN /\ pc = "serving"
     /\ IF email = "" \/ slotId = 0
        THEN /\ timeSlotCache' = touched
             /\ httpResponse' = [status |-> 400,
                                 body |-> [success |-> FALSE,
                                           error |-> "Missing required parameters"]]
             /\ lastRequest' = notBooked
        ELSE IF ~HasAtSign(email)
        THEN /\ timeSlotCache' = touched
             /\ httpResponse' = [status |-> 400,
                                 body |-> [success |-> FALSE,
                                           error |-> "Invalid email format"]]
             /\ lastRequest' = notBooked
        ELSE IF ~found
        THEN /\ timeSlotCache' = touched
             /\ httpResponse' = [status |-> 404,
                                 body |-> [success |-> FALSE,
                                           error |-> "Invalid or expired time slot"]]
             /\ lastRequest' = notBooked
        ELSE \E primaryOutcome \in OutcomeChoices :
             \E bufferOutcome \in (IF primaryOutcome = "ok" /\ timeSlot.buffer # Null
                                   THEN OutcomeChoices ELSE {"none"}) :
             \E taskOutcome \in (IF primaryOutcome = "ok"
                                 THEN TaskOutcomeChoices ELSE {"none"}) :
             LET booking == bookAppointment("Pat", email, timeSlot, primaryOutcome,
                                            bufferOutcome, taskOutcome)
             IN /\ timeSlotCache' =
                     [touched EXCEPT ![sessionId].cache =
                        [id \in (DOMAIN sessionCache.cache) \ {slotId} |->
                           sessionCache.cache[id]]]
                /\ httpResponse' = [status |-> 200, body |-> booking.returned]
                /\ lastRequest' =
                     request @@
                     [timeSlot |-> timeSlot, shown |-> sessionCache.cache[slotId].shown,
                      writes |-> booking.writes,
                      primaryOutcome |-> primaryOutcome,
                      bufferOutcome |-> bufferOutcome,
                      taskOutcome |-> taskOutcome]
     /\ UNCHANGED <<availabilityResponse, appointmentsResponse, appointmentType, callVars,
                 concurrentVars,
                    sinceCleanup, idsGenerated, globalCache>>

\* half an hour passes; the timer fires before more time passes
Tick ==
  /\ pc = "serving"
  /\ sinceCleanup * HALF_HOUR_MS < CLEANUP_PERIOD_MS
  /\ sinceCleanup' = sinceCleanup + 1
  /\ timeSlotCache' =
       [sessionId \in SessionIds |->
          IF timeSlotCache[sessionId] = Null THEN Null
          ELSE [timeSlotCache[sessionId] EXCEPT
                  !.idleTime = IF @ < MaxIdle THEN @ + 1 ELSE @]]
  /\ UNCHANGED <<availabilityResponse, appointmentsResponse, appointmentType, callVars,
                 concurrentVars,
                 idsGenerated, httpResponse, lastRequest, globalCache>>

\* mutant of SessionExpired: a session expires on reaching the timeout
SessionExpired_AtTimeout(idleTime) == idleTime * HALF_HOUR_MS >= SESSION_TIMEOUT_MS

\* line 208: now - lastAccessed > sessionTimeout
SessionExpired(idleTime) == idleTime * HALF_HOUR_MS > SESSION_TIMEOUT_MS

\* the callback of setInterval (lines 201-213)
Cleanup ==
  /\ pc = "serving"
  /\ sinceCleanup * HALF_HOUR_MS = CLEANUP_PERIOD_MS
  /\ sinceCleanup' = 0
  /\ timeSlotCache' =
       [sessionId \in SessionIds |->
          IF timeSlotCache[sessionId] # Null
             /\ SessionExpired(timeSlotCache[sessionId].idleTime)
          THEN Null
          ELSE timeSlotCache[sessionId]]
  /\ UNCHANGED <<availabilityResponse, appointmentsResponse, appointmentType, callVars,
                 concurrentVars,
                 idsGenerated, httpResponse, lastRequest, globalCache>>

\* another party books or cancels on the provider's calendar
CalendarChanges ==
  /\ pc = "serving"
  /\ appointmentsResponse' \in ServerApptChoices \ {appointmentsResponse}
  /\ UNCHANGED <<availabilityResponse, appointmentType, callVars, serverVars, globalCache>>

ServerNext ==
  \/ \E sessionId \in SessionIds : ListAppointmentTypes(sessionId)
  \/ \E sessionId \in SessionIds, appointmentTypeId \in TypeIdChoices, upstreamOk \in BOOLEAN :
       ListAvailability(sessionId, appointmentTypeId, upstreamOk)
  \/ \E sessionId \in SessionIds, email \in EmailChoices, slotId \in 0..MaxSlotIds :
       BookAppointment(sessionId, email, slotId)
  \/ Tick
  \/ Cleanup
  \/ CalendarChanges

ServerSpec == ServerInit /\ [][ServerNext]_vars

\* the clock advances and the armed timer fires
ServerLiveSpec == ServerSpec /\ WF_vars(Tick) /\ WF_vars(Cleanup)

(***************************************************************************)
(* Requests that overlap.  A handler runs to its await, waits there while  *)
(* other handlers run, and runs on to its response when the awaited call   *)
(* returns: GET /api/availability waits at line 99, POST                   *)
(* /api/book-appointment at line 187.  Two sessions send requests; every   *)
(* request is answered well within the session timeout.  The upstream      *)
(* keeps the calendar: an appointment it accepts is on it from then on.    *)
(***************************************************************************)
ConcurrentSessionIds == {"a", "b"}

ConcurrentWindows == <<Window(151, 0, Minutes(60))>>

ConcurrentInit ==
  /\ availabilityResponse = ConcurrentWindows
  /\ appointmentsResponse = <<>>
  /\ appointmentType = appointmentTypes[1]
  /\ pc = "serving"
  /\ windowSlotCount = 0
  /\ decisions = <<>>
  /\ result = <<>>
  /\ response = Null
  /\ inputsBefore = Null
  /\ secondResult = <<>>
  /\ callArguments = Null
  /\ upstreamCalls = <<>>
  /\ timeSlotCache = [sessionId \in ConcurrentSessionIds |-> Null]
  /\ sinceCleanup = 0
  /\ idsGenerated = 0
  /\ httpResponse = Null
  /\ lastRequest = Null
  /\ globalCache = GlobalCacheLoaded
  /\ inFlight = {}
  /\ requestsStarted = 0
  /\ primaryCreations = [slotId \in 1..MaxSlotIds |-> 0]

\* the caller of a session books under one name
PatientOf(sessionId) == IF sessionId = "a" THEN "Ann" ELSE "Bob"

\* the n-th request; phase "rejected" or "answered" once its response is sent,
\* "waiting" while its handler waits
RequestAt(handler, sessionId, n, phase) ==
  [handler |-> handler, sessionId |-> sessionId, n |-> n, phase |-> phase]

\* mutant of SessionCacheGet: one slot cache is shared by all sessions
SessionCacheGet_Shared(cache, sessionId) ==
  LET merged == UNION {DOMAIN cache[other].cache :
                         other \in {x \in DOMAIN cache : cache[x] # Null}}
  IN [idleTime |-> 0,
      cache |-> [slotId \in merged |->
                   LET holder == CHOOSE other \in {x \in DOMAIN cache : cache[x] # Null} :
                                   slotId \in DOMAIN cache[other].cache
                   IN cache[holder].cache[slotId]]]

\* lines 102 and 165: timeSlotCache.get(req.sessionId)
SessionCacheGet(cache, sessionId) == cache[sessionId]

\* mutant of CacheAfterListing: the clear of line 103 is left out
CacheAfterListing_NotCleared(cache, entries) == entries @@ cache

\* lines 103-110: the cache is cleared, then the listed slots are set
CacheAfterListing(cache, entries) == entries

\* mutant of SlotToBook: the cached slot is checked against the calendar of
\* the moment, and dropped when an appointment is on its interval
SlotToBook_Revalidated(sessionCache, slotId, scheduledAppointments) ==
  LET timeSlot == sessionCache.cache[slotId].timeSlot
  IN IF \E i \in 1..Len(scheduledAppointments) :
          /\ scheduledAppointments[i].start_date_time < DateOf(timeSlot.endTime)
          /\ scheduledAppointments[i].end_date_time > DateOf(timeSlot.startTime)
     THEN Null
     ELSE timeSlot

\* lines 175-187: the slot found in the cache is passed to bookAppointment
\* as it was cached
SlotToBook(sessionCache, slotId, scheduledAppointments) ==
  sessionCache.cache[slotId].timeSlot

\* the upstream's calendar after the writes of a booking: the appointment
\* requests it accepted are scheduled appointments
AcceptedAppointments(writes, primaryOutcome, bufferOutcome) ==
  LET outcomeOf(k) == IF k = 1 THEN primaryOutcome ELSE bufferOutcome
      accepted == {k \in 1..Len(writes) :
                     writes[k].kind = "appointment" /\ outcomeOf(k) = "ok"}
  IN [k \in 1..Cardinality(accepted) |->
        LET w == writes[CHOOSE j \in accepted :
                          Cardinality({x \in accepted : x <= j}) = k].request
        IN Appointment(w.appointment_type, DateOf(w.start_date_time),
                       DateOf(w.end_date_time), w.status)
           @@ [appointment_note |-> w.appointment_note]]

\* GET /api/availability up to its await (lines 43-68 and 83-99): the
\* middleware, the validation, the call of getAvailability, whose reads see
\* the calendar of the moment
AvailabilityRequested(sessionId, appointmentTypeId, upstreamOk) ==
  LET n == requestsStarted + 1
      listed == getAvailability(appointmentTypeId, RequestedDay, RequestedDay,
                                availabilityResponse, appointmentsResponse, upstreamOk)
  IN /\ pc = "serving"
     /\ requestsStarted < MaxRequests
     /\ requestsStarted' = n
     /\ timeSlotCache' = SessionTouched(sessionId)
     /\ IF appointmentTypeId = 0
        THEN /\ httpResponse' = [status |-> 400,
                                 body |-> [success |-> FALSE,
                                           error |-> "Missing required parameters"]]
             /\ lastRequest' = RequestAt("availability", sessionId, n, "rejected")
             /\ UNCHANGED <<inFlight, globalCache>>
        ELSE /\ inFlight' = inFlight \cup
                              {RequestAt("availability", sessionId, n, "waiting")
                               @@ [listed |-> listed]}
             /\ globalCache' = GlobalCacheAfter(globalCache, appointmentTypeId,
                                                RequestedDay, RequestedDay,
                                                availabilityResponse,
                                                appointmentsResponse, upstreamOk)
             /\ lastRequest' = RequestAt("availability", sessionId, n, "waiting")
             /\ UNCHANGED httpResponse
     /\ UNCHANGED <<availabilityResponse, appointmentsResponse, appointmentType, callVars,
                    sinceCleanup, idsGenerated, primaryCreations>>

\* GET /api/availability from its await on (lines 101-133)
AvailabilityAnswered ==
  \E request \in inFlight :
  LET sessionId == request.sessionId
      listed == request.listed
      slots == IF listed.success THEN listed.availableSlots ELSE <<>>
      slotIds == SlotIdsFor(slots)
      sessionCache == SessionCacheGet(timeSlotCache, sessionId)
      entries == [slotId \in slotIds |->
                    [timeSlot |-> CachedSlot(slots[slotId - idsGenerated]),
                     shown |-> LimitedSlot(slotId, slots[slotId - idsGenerated])
                               @@ [appointmentTypeId |-> 151]]]
  IN /\ pc = "serving"
     /\ request.handler = "availability"
     /\ idsGenerated + Len(slots) <= MaxSlotIds
     /\ inFlight' = inFlight \ {request}
     /\ timeSlotCache' =
          [timeSlotCache EXCEPT ![sessionId].cache =
             CacheAfterListing(sessionCache.cache, entries)]
     /\ idsGenerated' = idsGenerated + Len(slots)
     /\ httpResponse' =
          [status |-> 200,
           body |-> IF listed.success
                    THEN [success |-> TRUE,
                          availableSlots |->
                            [k \in 1..Len(slots) |-> LimitedSlot(idsGenerated + k, slots[k])]]
                    ELSE listed]
     /\ lastRequest' = RequestAt("availability", sessionId, request.n, "answered")
     /\ UNCHANGED <<availabilityResponse, appointmentsResponse, appointmentType, callVars,
                    sinceCleanup, globalCache, requestsStarted, primaryCreations>>

\* POST /api/book-appointment up to its await (lines 43-68 and 140-187), for
\* a request with a name and a well-formed address: the middleware, the cache
\* lookup, the call of bookAppointment, whose writes the upstream answers
BookingRequested(sessionId, slotId, primaryOutcome, bufferOutcome) ==
  LET n == requestsStarted + 1
      touched == SessionTouched(sessionId)
      sessionCache == SessionCacheGet(touched, sessionId)
      found == slotId \in DOMAIN sessionCache.cache
      timeSlot == SlotToBook(sessionCache, slotId, appointmentsResponse)
      booking == bookAppointment(PatientOf(sessionId), "pat@example.com", timeSlot,
                                 primaryOutcome, bufferOutcome, "ok")
      request == RequestAt("book-appointment", sessionId, n,
                           IF found THEN "waiting" ELSE "rejected")
                 @@ [slotId |-> slotId, found |-> found,
                     timeSlot |-> IF found THEN sessionCache.cache[slotId].timeSlot
                                  ELSE Null,
                     writes |-> IF found THEN booking.writes ELSE <<>>]
  IN /\ pc = "serving"
     /\ requestsStarted < MaxRequests
     /\ requestsStarted' = n
     /\ timeSlotCache' = touched
     /\ lastRequest' = request
     /\ IF ~found
        THEN /\ httpResponse' = [status |-> 404,
                                 body |-> [success |-> FALSE,
                                           error |-> "Invalid or expired time slot"]]
             /\ UNCHANGED <<inFlight, appointmentsResponse, primaryCreations>>
        ELSE /\ inFlight' = inFlight \cup {request @@ [returned |-> booking.returned]}
             /\ appointmentsResponse' =
                  appointmentsResponse \o
                  AcceptedAppointments(booking.writes, primaryOutcome, bufferOutcome)
             /\ primaryCreations' =
                  [primaryCreations EXCEPT ![slotId] =
                     @ + Cardinality({k \in 1..Len(booking.writes) :
                                        /\ booking.writes[k].kind = "appointment"
                                        /\ booking.writes[k].request.appointment_note
                                             # "BUFFER"})]
             /\ UNCHANGED httpResponse
     /\ UNCHANGED <<availabilityResponse, appointmentType, callVars,
                    sinceCleanup, idsGenerated, globalCache>>

\* POST /api/book-appointment from its await on (lines 189-193)
BookingAnswered ==
  \E request \in inFlight :
  LET sessionId == request.sessionId
      sessionCache == SessionCacheGet(timeSlotCache, sessionId)
  IN /\ pc = "serving"
     /\ request.handler = "book-appointment"
     /\ inFlight' = inFlight \ {request}
     /\ timeSlotCache' =
          [timeSlotCache EXCEPT ![sessionId].cache =
             [id \in (DOMAIN sessionCache.cache) \ {request.slotId} |->
                sessionCache.cache[id]]]
     /\ httpResponse' = [status |-> 200, body |-> request.returned]
     /\ lastRequest' = [request EXCEPT !.phase = "answered"]
     /\ UNCHANGED <<availabilityResponse, appointmentsResponse, appointmentType, callVars,
                    sinceCleanup, idsGenerated, globalCache, requestsStarted,
                    primaryCreations>>

ConcurrentNext ==
  \/ \E sessionId \in ConcurrentSessionIds, appointmentTypeId \in {0, 151},
        upstreamOk \in BOOLEAN :
       AvailabilityRequested(sessionId, appointmentTypeId, upstreamOk)
  \/ AvailabilityAnswered
  \/ \E sessionId \in ConcurrentSessionIds, slotId \in 1..MaxSlotIds,
        primaryOutcome \in OutcomeChoices :
     \E bufferOutcome \in (IF primaryOutcome = "ok" THEN {"ok", "unsuccessful"}
                           ELSE {"none"}) :
       BookingRequested(sessionId, slotId, primaryOutcome, bufferOutcome)
  \/ BookingAnswered

ConcurrentSpec == ConcurrentInit /\ [][ConcurrentNext]_vars

(***************************************************************************)
(* Calls of getAvailability and bookAppointment with arguments of any      *)
(* kind, on the calendar of one day, in a process whose caches are as      *)
(* loaded or hold the responses of an earlier call.                        *)
(***************************************************************************)
DateChoices == {Null, RequestedDay}

\* time slots a caller may pass: none, a listed slot, that slot without its
\* primary booking, or with the id of a type the catalog does not have
TimeSlotChoices ==
  LET listed == calculateAvailableTimeSlots(availabilityResponse, appointmentsResponse,
                                            appointmentTypes[1])
  IN {Null} \cup
     UNION { { listed[i],
               [listed[i] EXCEPT !.primaryBooking = Null],
               [listed[i] EXCEPT !.primaryBooking.appointmentTypeId = String(999)] } :
             i \in {k \in 1..Len(listed) : k <= 2} }

RequestInit ==
  /\ availabilityResponse \in {<<w>> : w \in DayWindowChoices}
  /\ appointmentsResponse \in DayApptChoices
  /\ appointmentType = appointmentTypes[1]
  /\ pc = "start"
  /\ windowSlotCount = 0
  /\ decisions = <<>>
  /\ result = <<>>
  /\ response = Null
  /\ inputsBefore = [windows |-> availabilityResponse, appointments |-> appointmentsResponse]
  /\ secondResult = <<>>
  /\ callArguments = Null
  /\ upstreamCalls = <<>>
  /\ timeSlotCache = [sessionId \in SessionIds |-> Null]
  /\ sinceCleanup = 0
  /\ idsGenerated = 0
  /\ httpResponse = Null
  /\ lastRequest = Null
  /\ inFlight = {}
  /\ requestsStarted = 0
  /\ primaryCreations = [slotId \in 1..MaxSlotIds |-> 0]
  /\ globalCache \in {GlobalCacheLoaded,
                      [availabilityCache |-> [available_windows |-> <<>>],
                       appointmentsCache |-> [appointments |-> <<>>]]}

\* a call of bookAppointment (lines 209-348); the upstream's outcomes are
\* drawn for the writes that are issued
BookAppointmentOf(timeSlot, primaryOutcome, bufferOutcome, taskOutcome) ==
  LET booking == bookAppointment("Pat", "pat@example.com", timeSlot, primaryOutcome,
                                 bufferOutcome, taskOutcome)
  IN /\ pc = "start"
     /\ pc' = "booked"
     /\ callArguments' = [patientName |-> "Pat", email |-> "pat@example.com",
                          timeSlot |-> timeSlot]
     /\ response' = booking.returned
     /\ upstreamCalls' = booking.writes
     /\ UNCHANGED <<availabilityResponse, appointmentsResponse, appointmentType,
                    windowSlotCount, decisions, result, inputsBefore, secondResult>>
     /\ UNCHANGED <<serverVars, globalCache>>

RequestNext ==
  \/ \E appointmentTypeId \in TypeIdChoices, startDate \in DateChoices,
        endDate \in DateChoices, failingRead \in 0..2 :
       GetAvailabilityOf(appointmentTypeId, startDate, endDate, failingRead)
  \/ \E timeSlot \in TimeSlotChoices, primaryOutcome \in OutcomeChoices :
     \E bufferOutcome \in (IF primaryOutcome = "ok" THEN OutcomeChoices ELSE {"none"}) :
     \E taskOutcome \in (IF primaryOutcome = "ok" THEN TaskOutcomeChoices ELSE {"none"}) :
       BookAppointmentOf(timeSlot, primaryOutcome, bufferOutcome, taskOutcome)

RequestSpec == RequestInit /\ [][RequestNext]_vars

(***************************************************************************)
(* The overlap tests applied to pairs of intervals on a quarter-hour grid, *)
(* intervals of no length included: overlaps() of this revision, overlaps()*)
(* of the older revision (backend/availability.web.js, lines 314-316) and  *)
(* the buffer test of lines 711-714 for a confirmed appointment.           *)
(***************************************************************************)
QuarterHours == {Minutes(15 * k) : k \in 0..4}

OlderOverlaps(slot, otherStart, otherEnd) ==
  slot.startTime < otherEnd /\ slot.endTime > otherStart

OverlapInit ==
  /\ availabilityResponse = <<>>
  /\ appointmentsResponse = <<>>
  /\ appointmentType = appointmentTypes[1]
  /\ pc = "start"
  /\ windowSlotCount = 0
  /\ decisions = <<>>
  /\ result = <<>>
  /\ response = Null
  /\ inputsBefore = [windows |-> availabilityResponse, appointments |-> appointmentsResponse]
  /\ secondResult = <<>>
  /\ callArguments = Null
  /\ upstreamCalls = <<>>
  /\ ServerStarted

CheckOverlap(startTime, endTime, otherStart, otherEnd) ==
  /\ pc = "start"
  /\ pc' = "compared"
  /\ callArguments' = [startTime |-> startTime, endTime |-> endTime,
                       otherStart |-> otherStart, otherEnd |-> otherEnd]
  /\ response' =
       [overlaps |-> overlaps(ActualAvailableTimeSlot(startTime, endTime, FALSE),
                              otherStart, otherEnd),
        olderOverlaps |-> OlderOverlaps(ActualAvailableTimeSlot(startTime, endTime, FALSE),
                                        otherStart, otherEnd),
        bufferOverlaps |-> BufferOverlaps(startTime,
                                          <<Appointment(ACU_NAME, otherStart, otherEnd,
                                                        "confirmed")>>)]
  /\ UNCHANGED <<availabilityResponse, appointmentsResponse, appointmentType,
                 windowSlotCount, decisions, result, inputsBefore, secondResult,
                 upstreamCalls>>
  /\ UNCHANGED <<serverVars, globalCache>>

OverlapNext ==
  \E startTime \in QuarterHours, endTime \in QuarterHours,
     otherStart \in QuarterHours, otherEnd \in QuarterHours :
    /\ startTime <= endTime
    /\ otherStart <= otherEnd
    /\ CheckOverlap(startTime, endTime, otherStart, otherEnd)

OverlapSpec == OverlapInit /\ [][OverlapNext]_vars

(***************************************************************************)
(* Vocabulary of the properties.                                           *)
(***************************************************************************)
Done == pc = "done"

RequestedDuration == Minutes(appointmentType.duration)

StartOf(timeSlot) == DateOf(timeSlot.startTime)
EndOf(timeSlot) == DateOf(timeSlot.endTime)

Returned == 1..Len(result)
Scheduled == 1..Len(appointmentsResponse)

MatchingWindows ==
  {w \in 1..Len(availabilityResponse) :
     availabilityResponse[w].appointment_type_id = appointmentType.id}

\* the half-hour boundaries of the explored horizon
HalfHourBoundaries == {k * 1800 : k \in 0..10}

\* t starts a candidate of the window: on a boundary, the whole duration inside
IsWindowStart(window, t) ==
  /\ t % 1800 = 0
  /\ t >= window.window_start
  /\ t + RequestedDuration <= window.window_end

WindowDerived == {i \in 1..Len(decisions) : i <= windowSlotCount}

RECURSIVE SumOver(_, _)
SumOver(f, S) ==
  IF S = {} THEN 0
  ELSE LET x == CHOOSE y \in S : TRUE IN f[x] + SumOver(f, S \ {x})

InsideWindow(timeSlot) ==
  \E w \in MatchingWindows :
     /\ availabilityResponse[w].window_start <= StartOf(timeSlot)
     /\ EndOf(timeSlot) <= availabilityResponse[w].window_end

HalfOpenOverlap(s1, e1, s2, e2) == s1 < e2 /\ e1 > s2

SameInterval(timeSlot, appointment) ==
  /\ appointment.start_date_time = StartOf(timeSlot)
  /\ appointment.end_date_time = EndOf(timeSlot)

(***************************************************************************)
(* C1: the window-derived candidates are exactly the intervals             *)
(* [t, t + duration) with t on a :00 or :30 boundary, t >= window.start    *)
(* and t + duration <= window.end, for the windows of the requested type:  *)
(* none is skipped, no other is produced, each window gives each once.     *)
(***************************************************************************)
C1_SlotGenerationExact ==
  Done =>
    /\ \A i \in WindowDerived :
         /\ decisions[i].slot.endTime = decisions[i].slot.startTime + RequestedDuration
         /\ \E w \in MatchingWindows :
              IsWindowStart(availabilityResponse[w], decisions[i].slot.startTime)
    /\ \A w \in MatchingWindows : \A t \in HalfHourBoundaries :
         IsWindowStart(availabilityResponse[w], t)
           => \E i \in WindowDerived : decisions[i].slot.startTime = t
    /\ windowSlotCount =
         SumOver([w \in MatchingWindows |->
                    Cardinality({t \in HalfHourBoundaries :
                                   IsWindowStart(availabilityResponse[w], t)})],
                 MatchingWindows)

(***************************************************************************)
(* C2: every returned slot lasts the duration of the requested type, and   *)
(* its primary booking starts at the slot start, has the type's duration   *)
(* and id (as String(id)) and isBuffer = false.                            *)
(***************************************************************************)
C2_SlotDurationAndPrimary ==
  Done =>
    \A i \in Returned :
      /\ EndOf(result[i]) - StartOf(result[i]) = RequestedDuration
      /\ result[i].primaryBooking.startTime = result[i].startTime
      /\ result[i].primaryBooking.duration = appointmentType.duration
      /\ result[i].primaryBooking.appointmentTypeId = String(appointmentType.id)
      /\ result[i].primaryBooking.isBuffer = FALSE

\* a call that returned a slot mirroring a dual appointment and a
\* window-derived slot with a buffer
C2_Witness ==
  /\ Done
  /\ \E i \in Returned : result[i].hasDualBooking /\ ~InsideWindow(result[i])
  /\ \E i \in Returned : ~result[i].hasDualBooking /\ result[i].buffer # Null

(***************************************************************************)
(* C3 as stated: every returned slot lies inside an availability window of *)
(* the requested type.                                                     *)
(***************************************************************************)
C3_Original_EverySlotInsideWindow ==
  Done => \A i \in Returned : InsideWindow(result[i])

(***************************************************************************)
(* C3 amended: every returned slot lies inside an availability window of   *)
(* the requested type or, for a dual-bookable type, is flagged             *)
(* hasDualBooking and has exactly the interval of a scheduled appointment  *)
(* of a dual-bookable type.                                                *)
(***************************************************************************)
C3_SlotInsideWindowOrMirrorsDual ==
  Done =>
    \A i \in Returned :
      \/ InsideWindow(result[i])
      \/ /\ appointmentType.dualBookable
         /\ result[i].hasDualBooking
         /\ \E k \in Scheduled :
              /\ IsDualBookableAppointment(appointmentsResponse[k])
              /\ SameInterval(result[i], appointmentsResponse[k])

\* a call that returned a slot outside every window next to slots inside one
C3_Witness ==
  /\ Done
  /\ \E i \in Returned : ~InsideWindow(result[i])
  /\ \E i \in Returned : InsideWindow(result[i])

(***************************************************************************)
(* C4: every returned slot starts at minute 0 or minute 30 of an hour.     *)
(***************************************************************************)
C4_SlotsStartOnHalfHour ==
  Done => \A i \in Returned : getMinutes(StartOf(result[i])) \in {0, 30}

(***************************************************************************)
(* C5: for a non-dual-bookable type no returned slot overlaps a scheduled  *)
(* appointment of the input list, whatever its type or status.             *)
(***************************************************************************)
C5_NonDualSlotsOverlapNothing ==
  (Done /\ ~appointmentType.dualBookable) =>
    \A i \in Returned : \A k \in Scheduled :
      ~HalfOpenOverlap(StartOf(result[i]), EndOf(result[i]),
                       appointmentsResponse[k].start_date_time,
                       appointmentsResponse[k].end_date_time)

\* the scheduled appointments of a non-ignorable type that a slot overlaps
OverlappedWork(timeSlot) ==
  {k \in Scheduled :
     /\ IsWorkAppointment(appointmentsResponse[k])
     /\ HalfOpenOverlap(StartOf(timeSlot), EndOf(timeSlot),
                        appointmentsResponse[k].start_date_time,
                        appointmentsResponse[k].end_date_time)}

\* the scheduled appointments of a dual-bookable type on exactly the slot's interval
ExactDualMatches(timeSlot) ==
  {k \in Scheduled :
     /\ IsDualBookableAppointment(appointmentsResponse[k])
     /\ SameInterval(timeSlot, appointmentsResponse[k])}

(***************************************************************************)
(* C6: for a dual-bookable type every returned slot overlaps at most one   *)
(* non-ignorable scheduled appointment, and that one is of a dual-bookable *)
(* type and has exactly the slot's start and end.                          *)
(***************************************************************************)
C6_DualSlotsOverlapAtMostOneExactDual ==
  (Done /\ appointmentType.dualBookable) =>
    \A i \in Returned :
      /\ Cardinality(OverlappedWork(result[i])) <= 1
      /\ OverlappedWork(result[i]) \subseteq ExactDualMatches(result[i])

\* a dual-bookable call that returned a slot on an existing dual appointment
\* while the list also holds an appointment that is no exact match of it
C6_Witness ==
  /\ Done
  /\ appointmentType.dualBookable
  /\ \E i \in Returned : Cardinality(OverlappedWork(result[i])) = 1
  /\ \E k \in Scheduled : \E j \in 1..Len(decisions) :
       /\ ~decisions[j].conflictFree
       /\ HalfOpenOverlap(decisions[j].slot.startTime, decisions[j].slot.endTime,
                          appointmentsResponse[k].start_date_time,
                          appointmentsResponse[k].end_date_time)

(***************************************************************************)
(* C7: for a dual-bookable type, a returned slot has hasDualBooking = true *)
(* exactly when exactly one scheduled appointment of a dual-bookable type  *)
(* has the slot's interval; with hasDualBooking = false the slot overlaps  *)
(* no scheduled work appointment.                                          *)
(***************************************************************************)
C7_HasDualBookingIffOneExactDual ==
  (Done /\ appointmentType.dualBookable) =>
    \A i \in Returned :
      /\ result[i].hasDualBooking <=> Cardinality(ExactDualMatches(result[i])) = 1
      /\ ~result[i].hasDualBooking => OverlappedWork(result[i]) = {}

\* a dual-bookable call that returned a window-derived slot flagged
\* hasDualBooking and a slot that is not flagged
C7_Witness ==
  /\ Done
  /\ appointmentType.dualBookable
  /\ \E i \in Returned : result[i].hasDualBooking /\ InsideWindow(result[i])
  /\ \E i \in Returned : ~result[i].hasDualBooking

(***************************************************************************)
(* The work block of a slot as the policy defines it: the maximal run of   *)
(* non-ignorable appointments chained to the slot by gaps of at most one   *)
(* minute (overlaps included), the slot counted in; its span is the latest *)
(* end minus the earliest start.                                           *)
(***************************************************************************)
Interval(s, e) == [s |-> s, e |-> e]

Chained(a, b) == a.s <= b.e + 60 /\ b.s <= a.e + 60

WorkIntervals ==
  {Interval(appointmentsResponse[k].start_date_time, appointmentsResponse[k].end_date_time) :
     k \in {j \in Scheduled : IsWorkAppointment(appointmentsResponse[j])}}

RECURSIVE ChainOf(_, _)
ChainOf(members, pool) ==
  LET more == {p \in pool : \E m \in members : Chained(m, p)}
  IN IF more = {} THEN members ELSE ChainOf(members \cup more, pool \ more)

SpanOf(members) ==
  (CHOOSE e \in {m.e : m \in members} : \A m \in members : m.e <= e)
  - (CHOOSE b \in {m.s : m \in members} : \A m \in members : b <= m.s)

ChainSpan(s, e) == SpanOf(ChainOf({Interval(s, e)}, WorkIntervals))

(***************************************************************************)
(* C8: no returned slot makes the provider work more than 90 consecutive   *)
(* minutes: the span of the slot's work block is at most 90 minutes.       *)
(***************************************************************************)
C8_NoBlockOver90Minutes ==
  Done =>
    \A i \in Returned :
      ChainSpan(StartOf(result[i]), EndOf(result[i])) <= Minutes(90)

(***************************************************************************)
(* C9: the work-block analysis rejects a conflict-free candidate exactly   *)
(* when the span of its work block exceeds 90 minutes.                     *)
(***************************************************************************)
C9_RejectedIffBlockOver90 ==
  Done =>
    \A i \in 1..Len(decisions) :
      decisions[i].conflictFree =>
        (decisions[i].blockRejected
           <=> ChainSpan(decisions[i].slot.startTime, decisions[i].slot.endTime)
                 > Minutes(90))

(***************************************************************************)
(* C10: a returned slot carries a buffer exactly when the span of its work *)
(* block is at least 60 minutes.                                           *)
(***************************************************************************)
C10_BufferIffBlockAtLeast60 ==
  Done =>
    \A i \in Returned :
      (result[i].buffer # Null)
        <=> ChainSpan(StartOf(result[i]), EndOf(result[i])) >= Minutes(60)

(***************************************************************************)
(* C11: whenever a returned slot has a buffer, the buffer starts at the    *)
(* primary booking's start plus the primary's duration, which is the slot  *)
(* end, lasts 30 minutes, has the reserved buffer type id (in the string   *)
(* form every booking's id has) and is flagged isBuffer.                   *)
(***************************************************************************)
C11_BufferShape ==
  Done =>
    \A i \in Returned :
      result[i].buffer # Null =>
        /\ DateOf(result[i].buffer.startTime)
             = DateOf(result[i].primaryBooking.startTime)
                 + Minutes(result[i].primaryBooking.duration)
        /\ DateOf(result[i].buffer.startTime) = EndOf(result[i])
        /\ result[i].buffer.duration = 30
        /\ result[i].buffer.appointmentTypeId = String(ADMIN_FLEXIBLE_TYPE_ID)
        /\ result[i].buffer.isBuffer = TRUE

\* a 60-minute slot is returned with a buffer
C11_Witness ==
  /\ Done
  /\ \E i \in Returned :
       /\ result[i].buffer # Null
       /\ result[i].primaryBooking.duration = 60
       /\ DateOf(result[i].buffer.startTime) = StartOf(result[i]) + Minutes(60)

\* the scheduled appointments whose status is confirmed or checked-in
BlockingAppointments ==
  {a \in Scheduled :
     toLowerCase(appointmentsResponse[a].status) \in {"confirmed", "checked_in"}}

\* the appointment overlaps the 30 minutes that follow the instant t
OverlapsBufferAt(t, appointment) ==
  HalfOpenOverlap(t, t + Minutes(30),
                  appointment.start_date_time, appointment.end_date_time)

Listed == pc = "listed" /\ response.success

(***************************************************************************)
(* C13: the availableSlots list of a successful getAvailability is sorted  *)
(* in non-decreasing order of slot start time, for every input, also when  *)
(* slots mirroring dual bookings were appended after the window slots.     *)
(***************************************************************************)
C13_AvailableSlotsSorted ==
  Listed =>
    \A i, j \in 1..Len(response.availableSlots) :
      i < j => StartOf(response.availableSlots[i]) <= StartOf(response.availableSlots[j])

\* the calculation gave its slots out of order (a slot mirroring a dual
\* booking after later window slots) and getAvailability returned them
C13_Witness ==
  /\ Listed
  /\ Len(response.availableSlots) >= 3
  /\ LET computed == calculateAvailableTimeSlots(
                       availabilityResponse, appointmentsResponse,
                       FindAppointmentTypeById(appointmentType.id))
     IN \E i \in 1..(Len(computed) - 1) :
          DateOf(computed[i].startTime) > DateOf(computed[i + 1].startTime)

FullDayCase ==
  /\ availabilityResponse = <<Window(151, T_12_00, T_20_00)>>
  /\ appointmentsResponse = <<>>
  /\ appointmentType = appointmentTypes[1]

(***************************************************************************)
(* C15: with a single availability window from 12:00 to 20:00 for a        *)
(* 60-minute type that is not dual-bookable and no scheduled appointment,  *)
(* calculateAvailableTimeSlots returns exactly 15 slots, which start at    *)
(* 12:00, 12:30, ..., 19:00, each ending at or before 20:00.               *)
(***************************************************************************)
C15_FullDayGivesFifteenSlots ==
  (Done /\ FullDayCase) =>
    /\ Len(result) = 15
    /\ \A k \in 0..14 :
         /\ StartOf(result[k + 1]) = T_12_00 + k * Minutes(30)
         /\ EndOf(result[k + 1]) = StartOf(result[k + 1]) + Minutes(60)
         /\ EndOf(result[k + 1]) <= T_20_00

C15_Witness ==
  /\ Done
  /\ FullDayCase
  /\ Len(result) > 0

\* the last request was a booking that reached bookAppointment
Booked ==
  /\ lastRequest # Null
  /\ lastRequest.handler = "book-appointment"
  /\ lastRequest.timeSlot # Null

PrimaryFailed == lastRequest.primaryOutcome \in {"unsuccessful", "throws"}

\* the upstream write is the request for the primary appointment of the slot
IsPrimaryWrite(write, timeSlot) ==
  /\ write.kind = "appointment"
  /\ write.request.appointment_note # "BUFFER"
  /\ write.request.start_date_time = timeSlot.primaryBooking.startTime

IsBufferWrite(write) ==
  write.kind = "appointment" /\ write.request.appointment_note = "BUFFER"

IsTaskWrite(write) == write.kind = "task"

(***************************************************************************)
(* C16: in bookAppointment the request creating the primary appointment is *)
(* the first upstream write; if it fails (unsuccessful answer or thrown    *)
(* error) the call returns success = false and neither a buffer request    *)
(* nor a reminder-task request is issued for that attempt.                 *)
(***************************************************************************)
C16_PrimaryFirstAndFatal ==
  Booked =>
    /\ Len(lastRequest.writes) >= 1
    /\ IsPrimaryWrite(lastRequest.writes[1], lastRequest.timeSlot)
    /\ PrimaryFailed =>
         /\ httpResponse.body.success = FALSE
         /\ \A i \in 1..Len(lastRequest.writes) :
              /\ ~IsBufferWrite(lastRequest.writes[i])
              /\ ~IsTaskWrite(lastRequest.writes[i])

\* the primary booking of a slot that carries a buffer got an unsuccessful answer
C16_Witness ==
  /\ Booked
  /\ lastRequest.primaryOutcome = "unsuccessful"
  /\ lastRequest.timeSlot.buffer # Null
  /\ httpResponse.body.success = FALSE

(***************************************************************************)
(* C17: once the primary booking has succeeded, bookAppointment returns    *)
(* success = true with the details of the primary appointment, whatever    *)
(* the outcome of the buffer booking and of the reminder task, and the     *)
(* reminder task is attempted, also after a failed buffer booking.         *)
(***************************************************************************)
C17_SecondaryStepsBestEffort ==
  (Booked /\ lastRequest.primaryOutcome = "ok") =>
    /\ httpResponse.body.success = TRUE
    /\ httpResponse.body.appointment.startTime = lastRequest.timeSlot.primaryBooking.startTime
    /\ httpResponse.body.appointment.appointmentTypeId
         = lastRequest.timeSlot.primaryBooking.appointmentTypeId
    /\ DateOf(httpResponse.body.appointment.endTime)
         = DateOf(lastRequest.timeSlot.primaryBooking.startTime)
             + Minutes(lastRequest.timeSlot.primaryBooking.duration)
    /\ IsTaskWrite(lastRequest.writes[Len(lastRequest.writes)])

\* the primary succeeded, the buffer booking threw and the task creation threw
C17_Witness ==
  /\ Booked
  /\ lastRequest.primaryOutcome = "ok"
  /\ lastRequest.bufferOutcome = "throws"
  /\ lastRequest.taskOutcome = "throws"
  /\ httpResponse.body.success = TRUE

(***************************************************************************)
(* C18: when the primary booking succeeds and a secondary step fails, the  *)
(* returned booking result holds a failure entry for it: one for a failed  *)
(* buffer booking and one for a failed reminder-task creation.             *)
(***************************************************************************)
C18_SecondaryFailuresReported ==
  (Booked /\ lastRequest.primaryOutcome = "ok") =>
    LET bookingResults == httpResponse.body.bookingResults
    IN /\ lastRequest.bufferOutcome \in {"unsuccessful", "throws"} =>
            \E i \in 1..Len(bookingResults) :
               bookingResults[i].isBuffer /\ ~bookingResults[i].success
       /\ lastRequest.taskOutcome = "throws" =>
            \E i \in 1..Len(bookingResults) :
               ~bookingResults[i].isBuffer /\ ~bookingResults[i].success

\* the primary request of the last booking is the one the shown slot stands for
PrimaryAsShown ==
  LET request == lastRequest.writes[1].request
      shown == lastRequest.shown
  IN /\ IsPrimaryWrite(lastRequest.writes[1], lastRequest.timeSlot)
     /\ request.start_date_time = shown.startTime
     /\ request.end_date_time = shown.endTime
     /\ request.appointment_type
          = FindAppointmentTypeById(shown.appointmentTypeId).internalName

BufferWrites == {i \in 1..Len(lastRequest.writes) : IsBufferWrite(lastRequest.writes[i])}

\* a buffer request starts at the end of the shown slot and lasts 30 minutes
BufferAsShown ==
  \A i \in BufferWrites :
    /\ lastRequest.writes[i].request.start_date_time = lastRequest.shown.endTime
    /\ DateOf(lastRequest.writes[i].request.end_date_time)
         = DateOf(lastRequest.shown.endTime) + Minutes(30)

(***************************************************************************)
(* C19 as stated: a booking through the book endpoint with a slot id       *)
(* issues a primary request with the start, duration and type of the slot  *)
(* cached under that id at listing time, and issues a buffer request if    *)
(* and only if that slot carries a buffer, with the cached buffer start    *)
(* and duration.                                                           *)
(***************************************************************************)
C19_Original_BufferRequestIffCachedBuffer ==
  Booked =>
    /\ PrimaryAsShown
    /\ BufferAsShown
    /\ (BufferWrites # {}) <=> lastRequest.shown.hasBuffer

(***************************************************************************)
(* C19: a booking through the book endpoint with a slot id issues a        *)
(* primary request with the start, duration and type of the slot cached    *)
(* under that id at listing time; when the primary booking succeeds, a     *)
(* buffer request is issued if and only if that slot carries a buffer,     *)
(* with the cached buffer start and duration, and when it fails no buffer  *)
(* request is issued; nothing is recomputed from the current calendar.     *)
(***************************************************************************)
C19_BookingReusesCachedDecision ==
  Booked =>
    /\ PrimaryAsShown
    /\ BufferAsShown
    /\ lastRequest.primaryOutcome = "ok" =>
         ((BufferWrites # {}) <=> lastRequest.shown.hasBuffer)
    /\ lastRequest.primaryOutcome # "ok" => BufferWrites = {}

\* a slot listed with a buffer is booked, buffer included, when the calendar
\* has changed so that a new listing does not offer it any more
C19_Witness ==
  /\ Booked
  /\ lastRequest.primaryOutcome = "ok"
  /\ lastRequest.shown.hasBuffer
  /\ BufferWrites # {}
  /\ LET listedNow == getAvailability(lastRequest.shown.appointmentTypeId,
                                      RequestedDay, RequestedDay,
                                      availabilityResponse, appointmentsResponse, TRUE)
     IN \A k \in 1..Len(listedNow.availableSlots) :
          listedNow.availableSlots[k].startTime # lastRequest.shown.startTime

SessionExists(sessionId) == timeSlotCache[sessionId] # Null

\* a step in which the session's entry leaves the map
SessionRemoved(sessionId) ==
  SessionExists(sessionId) /\ timeSlotCache'[sessionId] = Null

(***************************************************************************)
(* C20: the session's slot cache expires after an idle hour.  A session's  *)
(* entry is removed only by a cleanup run and only when its last access is *)
(* more than one hour old, so a session accessed within the last hour is   *)
(* never removed; a session that stays idle is eventually removed by a     *)
(* cleanup run; and a booking on a removed session resolves no slot id.    *)
(***************************************************************************)
C20_IdleSessionsExpire ==
  /\ [][\A sessionId \in SessionIds :
          SessionRemoved(sessionId) =>
            /\ timeSlotCache[sessionId].idleTime * HALF_HOUR_MS > SESSION_TIMEOUT_MS
            /\ sinceCleanup' = 0 /\ sinceCleanup * HALF_HOUR_MS = CLEANUP_PERIOD_MS]_vars
  /\ \A sessionId \in SessionIds :
       (SessionExists(sessionId) /\ timeSlotCache[sessionId].idleTime >= 1)
         ~> (~SessionExists(sessionId) \/ timeSlotCache[sessionId].idleTime = 0)
  /\ [](\A sessionId \in SessionIds :
          (/\ lastRequest # Null
           /\ lastRequest.handler = "book-appointment"
           /\ lastRequest.sessionId = sessionId
           /\ lastRequest.newSession)
            => (lastRequest.timeSlot = Null /\ httpResponse.status # 200))

\* a session that was listed slots was removed, and a booking with one of
\* the slot ids given out then gets the answer 404
C20_Witness ==
  /\ lastRequest # Null
  /\ lastRequest.handler = "book-appointment"
  /\ lastRequest.newSession
  /\ lastRequest.slotId \in 1..idsGenerated
  /\ httpResponse.status = 404

(***************************************************************************)
(* C21: invalid input is rejected before any work is done.  A call of      *)
(* getAvailability with a parameter missing or with a type id that no      *)
(* catalog type has returns success = false, issues no upstream read and   *)
(* leaves the process-wide caches as they were; a call of bookAppointment  *)
(* with no time slot, no primary booking or a type id that no catalog type *)
(* has returns success = false and issues no upstream request.             *)
(***************************************************************************)
InCatalog(appointmentTypeId) ==
  \E i \in 1..Len(appointmentTypes) : appointmentTypes[i].id = appointmentTypeId

InvalidAvailabilityArguments(arguments) ==
  \/ arguments.appointmentTypeId = 0
  \/ arguments.startDate = Null
  \/ arguments.endDate = Null
  \/ ~InCatalog(arguments.appointmentTypeId)

InvalidBookingArguments(arguments) ==
  \/ arguments.timeSlot = Null
  \/ arguments.timeSlot.primaryBooking = Null
  \/ \A i \in 1..Len(appointmentTypes) :
        String(appointmentTypes[i].id) # arguments.timeSlot.primaryBooking.appointmentTypeId

C21_InvalidInputRejectedBeforeWork ==
  [][ /\ (pc = "start" /\ pc' = "listed" /\ InvalidAvailabilityArguments(callArguments'))
        => /\ response'.success = FALSE
           /\ upstreamCalls' = <<>>
           /\ globalCache' = globalCache
      /\ (pc = "start" /\ pc' = "booked" /\ InvalidBookingArguments(callArguments'))
        => /\ response'.success = FALSE
           /\ upstreamCalls' = <<>> ]_vars

\* getAvailability was called for a type id the catalog does not have, in a
\* process whose caches held earlier responses: they still hold them
C21_Witness ==
  /\ pc = "listed"
  /\ callArguments.appointmentTypeId = 999
  /\ callArguments.startDate # Null /\ callArguments.endDate # Null
  /\ response.success = FALSE
  /\ upstreamCalls = <<>>
  /\ globalCache.availabilityCache # Null

(***************************************************************************)
(* C22: the returned list holds no two slots with the same start and       *)
(* appointment type id, except the dual-booking pair: one window-derived   *)
(* slot and one slot mirroring an existing dual appointment at the same    *)
(* interval.  This is for any windows, several of the same type included.  *)
(***************************************************************************)
Kept == {i \in 1..Len(decisions) : decisions[i].items # <<>>}

MirrorsDualAppointment(i) ==
  /\ i \notin WindowDerived
  /\ \E a \in Scheduled :
       /\ IsDualBookableAppointment(appointmentsResponse[a])
       /\ appointmentsResponse[a].start_date_time = decisions[i].slot.startTime
       /\ appointmentsResponse[a].end_date_time = decisions[i].slot.endTime

C22_NoDuplicateSlots ==
  Done =>
    \A i \in Kept : \A j \in Kept :
      (i < j /\ decisions[i].slot.startTime = decisions[j].slot.startTime)
        => (i \in WindowDerived /\ MirrorsDualAppointment(j))

(***************************************************************************)
(* C23: appointments of an ignorable type are left out of the work         *)
(* accounting altogether: with them or without them in the schedule, each  *)
(* candidate gets the same work-block rejection and the same buffer        *)
(* requirement.                                                            *)
(***************************************************************************)
IsIgnorable(appointment) ==
  appointment.appointment_type_internal_name = ADMIN_NAME

WithoutIgnorable == SelectSeq(appointmentsResponse, LAMBDA a : ~IsIgnorable(a))

C23_IgnorableAppointmentsNotCounted ==
  Done =>
    LET without == Decisions(availabilityResponse, WithoutIgnorable, appointmentType)
    IN /\ Len(without) = Len(decisions)
       /\ \A i \in 1..Len(decisions) :
            /\ without[i].blockRejected = decisions[i].blockRejected
            /\ without[i].needsBuffer = decisions[i].needsBuffer

(***************************************************************************)
(* C25: for a dual-bookable requested type, every scheduled appointment    *)
(* whose internal name maps to a dual-bookable type and which lasts the    *)
(* requested duration gives one extra candidate at its interval, flagged   *)
(* as having a dual booking, whether or not a window gave a candidate.     *)
(***************************************************************************)
MirroredAppointments ==
  SelectSeq(appointmentsResponse,
            LAMBDA a : /\ \E i \in 1..Len(appointmentTypes) :
                            /\ appointmentTypes[i].internalName = a.appointment_type_internal_name
                            /\ appointmentTypes[i].dualBookable
                       /\ a.end_date_time - a.start_date_time = RequestedDuration)

DualDerived == SubSeq(decisions, windowSlotCount + 1, Len(decisions))

C25_EveryDualAppointmentGivesCandidate ==
  (Done /\ appointmentType.dualBookable) =>
    /\ Len(DualDerived) = Len(MirroredAppointments)
    /\ \A k \in 1..Len(MirroredAppointments) :
         /\ DualDerived[k].slot.startTime = MirroredAppointments[k].start_date_time
         /\ DualDerived[k].slot.endTime = MirroredAppointments[k].end_date_time
         /\ DualDerived[k].slot.hasDualBooking

(***************************************************************************)
(* C26: the returned list keeps the order in which the candidates were     *)
(* generated: the surviving slots of the windows, window after window and  *)
(* half-hour step after half-hour step, then the surviving slots mirroring *)
(* dual appointments, in the order of the scheduled appointments.  The     *)
(* filter removes slots and never reorders them.                           *)
(***************************************************************************)
MatchingWindowSeq ==
  SelectSeq(availabilityResponse, LAMBDA w : w.appointment_type_id = appointmentType.id)

\* the window-derived candidates from the i-th on are those of the windows
\* from the k-th on, each window's candidates at ascending starts after prev
RECURSIVE InEnumerationOrder(_, _, _)
InEnumerationOrder(i, k, prev) ==
  IF i > windowSlotCount THEN TRUE
  ELSE /\ k <= Len(MatchingWindowSeq)
       /\ \/ /\ MatchingWindowSeq[k].window_start <= decisions[i].slot.startTime
             /\ decisions[i].slot.endTime <= MatchingWindowSeq[k].window_end
             /\ decisions[i].slot.startTime > prev
             /\ InEnumerationOrder(i + 1, k, decisions[i].slot.startTime)
          \/ InEnumerationOrder(i, k + 1, -1)

\* the dual-derived candidates mirror scheduled appointments at ascending
\* positions of the schedule, from position a on
RECURSIVE InScheduleOrder(_, _)
InScheduleOrder(i, a) ==
  IF i > Len(decisions) THEN TRUE
  ELSE \E b \in {x \in Scheduled : x >= a} :
         /\ appointmentsResponse[b].start_date_time = decisions[i].slot.startTime
         /\ appointmentsResponse[b].end_date_time = decisions[i].slot.endTime
         /\ InScheduleOrder(i + 1, b + 1)

SurvivingCandidates == SelectSeq(decisions, LAMBDA d : d.items # <<>>)

C26_GenerationOrderPreserved ==
  Done =>
    /\ InEnumerationOrder(1, 1, -1)
    /\ InScheduleOrder(windowSlotCount + 1, 1)
    /\ Len(result) = Len(SurvivingCandidates)
    /\ \A k \in Returned :
         /\ StartOf(result[k]) = SurvivingCandidates[k].slot.startTime
         /\ EndOf(result[k]) = SurvivingCandidates[k].slot.endTime

\* a call that dropped a candidate and returned a slot of a window before a
\* slot mirroring a dual appointment that starts earlier
C26_Witness ==
  /\ Done
  /\ Len(SurvivingCandidates) < Len(decisions)
  /\ \E p \in Returned : \E q \in Returned :
       /\ p < q
       /\ StartOf(result[p]) > StartOf(result[q])
       /\ \E i \in WindowDerived : decisions[i].items = <<result[p]>>
       /\ \E j \in 1..Len(decisions) : j \notin WindowDerived /\ decisions[j].items = <<result[q]>>

(***************************************************************************)
(* C27: the overlap test of the conflict filter and of the buffer check is *)
(* the half-open interval overlap, for all pairs of intervals, those of no *)
(* length included: true exactly when a.start < b.end and a.end > b.start, *)
(* so that intervals touching end to start do not overlap; overlaps() of   *)
(* this revision and overlaps() of the older revision agree on every pair. *)
(***************************************************************************)
C27_OverlapIsHalfOpen ==
  pc = "compared" =>
    /\ response.overlaps = HalfOpenOverlap(callArguments.startTime, callArguments.endTime,
                                           callArguments.otherStart, callArguments.otherEnd)
    /\ response.overlaps = response.olderOverlaps
    /\ response.bufferOverlaps =
         HalfOpenOverlap(callArguments.startTime,
                         callArguments.startTime + Minutes(BUFFER_DURATION),
                         callArguments.otherStart, callArguments.otherEnd)

(***************************************************************************)
(* Vocabulary of the properties of overlapping requests.                   *)
(***************************************************************************)
BookingHandled(phase) ==
  /\ lastRequest # Null
  /\ lastRequest.handler = "book-appointment"
  /\ lastRequest.phase = phase

\* the appointments the upstream accepted from the caller of a session
BookedBy(sessionId) ==
  {i \in Scheduled :
     /\ appointmentsResponse[i].appointment_type_internal_name = ACU_NAME
     /\ appointmentsResponse[i].appointment_note = <<PatientOf(sessionId), "pat@example.com">>}

(***************************************************************************)
(* C24: booking does no locking and no re-validation across requests.  A   *)
(* booking request whose slot id resolves in its session issues the        *)
(* request creating the primary appointment on the cached interval,        *)
(* whatever the calendar holds by then; so two callers in different        *)
(* sessions that were both listed the same non-dual interval can both have *)
(* their primary appointment accepted, and the calendar then holds two     *)
(* primary appointments on that interval.                                  *)
(***************************************************************************)
C24_BookingNotRevalidated ==
  (BookingHandled("waiting") \/ BookingHandled("answered")) =>
    /\ Len(lastRequest.writes) >= 1
    /\ lastRequest.writes[1].kind = "appointment"
    /\ lastRequest.writes[1].request.start_date_time = lastRequest.timeSlot.startTime
    /\ lastRequest.writes[1].request.end_date_time = lastRequest.timeSlot.endTime
    /\ lastRequest.writes[1].request.appointment_note
         = <<PatientOf(lastRequest.sessionId), "pat@example.com">>

\* both sessions' bookings were answered with success and the calendar holds
\* an appointment of each caller on the same interval, of the type that is
\* not dual-bookable
C24_Witness ==
  /\ BookingHandled("answered")
  /\ httpResponse.body.success
  /\ inFlight = {}
  /\ \E i \in BookedBy("a") : \E j \in BookedBy("b") :
       /\ appointmentsResponse[i].start_date_time = appointmentsResponse[j].start_date_time
       /\ appointmentsResponse[i].end_date_time = appointmentsResponse[j].end_date_time
       /\ ~IsDualBookableAppointment(appointmentsResponse[i])

(***************************************************************************)
(* C28: a cached slot id is used once.  Over any interleaving of booking   *)
(* requests of a session, two requests for one slot id waiting at the same *)
(* time included, at most one request creating a primary appointment is    *)
(* issued for a slot id, and every later request for that id is answered   *)
(* 404 'Invalid or expired time slot'.                                     *)
(***************************************************************************)
C28_SlotIdSingleUse ==
  /\ \A slotId \in DOMAIN primaryCreations : primaryCreations[slotId] <= 1
  /\ \A slotId \in DOMAIN primaryCreations :
       (/\ BookingHandled("rejected")
        /\ lastRequest.slotId = slotId
        /\ primaryCreations[slotId] >= 1) => httpResponse.status = 404

(***************************************************************************)
(* C29: slot ids belong to the session that was listed them.  A booking    *)
(* request with a slot id cached for another session does not reach        *)
(* bookAppointment and is answered 404 'Invalid or expired time slot'; and *)
(* no request of a session, listing or booking, adds, removes or changes   *)
(* an entry of another session's slot cache.                               *)
(***************************************************************************)
CachedFor(sessionId, slotId) ==
  /\ timeSlotCache[sessionId] # Null
  /\ slotId \in DOMAIN timeSlotCache[sessionId].cache

\* the step in which a booking request comes in
BookingComesIn ==
  /\ requestsStarted' = requestsStarted + 1
  /\ lastRequest'.handler = "book-appointment"

C29_SlotIdsScopedToSession ==
  [][ /\ (/\ BookingComesIn
          /\ \E other \in ConcurrentSessionIds \ {lastRequest'.sessionId} :
               CachedFor(other, lastRequest'.slotId))
        => /\ httpResponse'.status = 404
           /\ lastRequest'.phase = "rejected"
           /\ lastRequest'.writes = <<>>
           /\ inFlight' = inFlight
           /\ primaryCreations' = primaryCreations
           /\ appointmentsResponse' = appointmentsResponse
      /\ \A sessionId \in ConcurrentSessionIds :
           timeSlotCache'[sessionId] # timeSlotCache[sessionId]
             => lastRequest'.sessionId = sessionId ]_vars

\* a booking request of session b with an id that session a's cache holds
\* was answered 404, and session a's cache still holds the id
C29_Witness ==
  /\ BookingHandled("rejected")
  /\ lastRequest.sessionId = "b"
  /\ CachedFor("a", lastRequest.slotId)
  /\ httpResponse.status = 404

(***************************************************************************)
(* Vocabulary of C30.                                                      *)
(***************************************************************************)
IdsCached(cache, sessionId) ==
  IF cache[sessionId] = Null THEN {} ELSE DOMAIN cache[sessionId].cache

IdsReturned(sent) ==
  IF sent.body.success
  THEN {sent.body.availableSlots[k].id : k \in 1..Len(sent.body.availableSlots)}
  ELSE {}

\* the step in which the availability handler of a request finishes: with
\* the 400 answer of the validation, or with the answer after the lookup
AvailabilityFinishes(phases) ==
  /\ lastRequest' # lastRequest
  /\ lastRequest'.handler = "availability"
  /\ lastRequest'.phase \in phases

\* after the step the session's cache holds the ids of the response sent
\* and no id that any cache held before
CacheReplaced ==
  /\ IdsCached(timeSlotCache', lastRequest'.sessionId) = IdsReturned(httpResponse')
  /\ \A sessionId \in ConcurrentSessionIds :
       IdsCached(timeSlotCache', lastRequest'.sessionId)
         \cap IdsCached(timeSlotCache, sessionId) = {}

(***************************************************************************)
(* C30 as stated: every availability request that completes replaces the   *)
(* slot cache of its session: when the handler finishes the cache holds    *)
(* exactly the slot ids of that response (none when the lookup failed) and *)
(* no id of an earlier listing resolves.                                   *)
(***************************************************************************)
C30_Original_EveryListingReplacesCache ==
  [][ AvailabilityFinishes({"answered", "rejected"}) => CacheReplaced ]_vars

(***************************************************************************)
(* C30 amended: every availability request that passes the validation of   *)
(* its parameters replaces the slot cache of its session: when the handler *)
(* finishes the cache holds exactly the slot ids of that response (none    *)
(* when the lookup failed) and no id of an earlier listing resolves; no    *)
(* other step adds an id to a cache, so that of two overlapping listings   *)
(* of a session only the ids of the one that finished last can be booked.  *)
(* A request answered 400 for a missing parameter leaves the cache as it   *)
(* was.                                                                    *)
(***************************************************************************)
C30_ValidListingReplacesCache ==
  [][ /\ AvailabilityFinishes({"answered"}) => CacheReplaced
      /\ AvailabilityFinishes({"rejected"}) =>
           IdsCached(timeSlotCache', lastRequest'.sessionId)
             = IdsCached(timeSlotCache, lastRequest'.sessionId)
      /\ \A sessionId \in ConcurrentSessionIds :
           ~(AvailabilityFinishes({"answered"}) /\ lastRequest'.sessionId = sessionId)
             => IdsCached(timeSlotCache', sessionId) \subseteq IdsCached(timeSlotCache, sessionId)
    ]_vars

\* two listings of session a overlapped, the one that came in second was
\* answered first with slot id 1, the one that came in first was answered
\* last with slot id 2: the cache holds id 2 only
C30_Witness ==
  /\ lastRequest # Null
  /\ lastRequest.handler = "availability"
  /\ lastRequest.phase = "answered"
  /\ lastRequest.sessionId = "a"
  /\ lastRequest.n = 1
  /\ requestsStarted = 2
  /\ inFlight = {}
  /\ idsGenerated = 2
  /\ timeSlotCache["b"] = Null
  /\ IdsCached(timeSlotCache, "a") = {2}
  /\ IdsReturned(httpResponse) = {2}

====
